---- MODULE Spec2Model ----
(***************************************************************************)
(* A model of parsource: the delimiter tables (BlockLanguage,              *)
(* ExpressionLanguage), the escape-aware scanner (iterDelimiters), the two *)
(* event classifiers (BlockParser.parse, ExpressionParser.parse) and the   *)
(* stack machine that builds the tree (TreeExtractor).                     *)
(*                                                                         *)
(* A Python str is a sequence of one-character strings; offsets are        *)
(* 0-based as in the source, so text[j] of the source is text[j + 1] here. *)
(***************************************************************************)
EXTENDS Integers, Sequences, FiniteSets, TLC

VARIABLES
    text,        \* the source text given to the parser
    parser,      \* "block" (BlockParser) or "expr" (ExpressionParser); "none" when events are fed directly
    offset,      \* iterDelimiters: the local `offset`
    scanned,     \* iterDelimiters: TRUE once the generator is exhausted
    hit,         \* the DelimiterMatch yielded and not yet consumed by the classifier, or NoHit
    hits,        \* every DelimiterMatch yielded so far, in order
    quote_type,  \* BlockParser.parse: the local `quote_type`
    quote_start, \* BlockParser.parse: the local `quote_start`
    expr_offset, \* ExpressionParser.parse: the local `offset`
    parsed,      \* TRUE once the classifier's generator is exhausted
    parse_err,   \* the exception the classifier raised, which process is about to propagate
    events,      \* every ParseEvent produced so far, in order
    fed,         \* how many of `events` TreeExtractor.feed has been given
    heap,        \* the Node objects, by construction order: heap[n] is the node built n-th
    stack,       \* TreeExtractor.stack
    withOffsets, \* TreeExtractor.withOffsets
    err,         \* the exception the last step raised, or NoError
    raised,      \* TRUE once a feed call of this extractor has raised
    diagnostics, \* what Transform.process has yielded: the truthy results of feed
    pc,          \* "run" | "done" (process returned) | "raised" (process propagated an exception)
    call         \* the last call made on a Node, a processor or a language class, with its arguments

vars == <<text, parser, offset, scanned, hit, hits, quote_type, quote_start,
          expr_offset, parsed, parse_err, events, fed, heap, stack, withOffsets, err, raised,
          diagnostics, pc, call>>

scanVars == <<offset, scanned, hit, hits>>
classVars == <<quote_type, quote_start, expr_offset, parsed, parse_err>>
treeVars == <<heap, stack>>

\* ------------------------------------------------------------------------
\* Python values

\* None, where the source holds a str or None (a delimiter, quote_type):
\* no delimiter of a table is empty, and `if quote_type:` treats both alike.
None == << >>

Min(a, b) == IF a < b THEN a ELSE b

\* text[j], 0-based
At(s, j) == s[j + 1]

\* s[a:b] for 0 <= a, 0 <= b: Python clips the slice to the string
Slice(s, a, b) == SubSeq(s, a + 1, Min(b, Len(s)))

\* s.find(sub, lo, hi) for 0 <= lo: the lowest j >= lo with s[j:j+len(sub)] == sub
\* and j + len(sub) <= min(hi, len(s)); -1 when there is none
Find(s, sub, lo, hi) ==
    LET top == Min(hi, Len(s)) - Len(sub)
        at == {j \in lo..top : SubSeq(s, j + 1, j + Len(sub)) = sub}
    IN IF at = {} THEN -1 ELSE CHOOSE j \in at : \A k \in at : j <= k

\* the elements of a list
Range(s) == {s[k] : k \in DOMAIN s}

\* ------------------------------------------------------------------------
\* ParseEvent

TEXT == ":text"
COMMENT == ":comment"
QUOTE == ":quote"
KEYWORD == ":keyword"
OPERATOR_INFIX == ":op-infix"
OPERATOR_SUFFIX == ":op-suffix"
OPERATOR_PREFIX == ":op-prefix"
LINE_END == ":line-end"
STATEMENT_END == ":statement-end"
BLOCK_START == ":block-start"
BLOCK_END == ":block-end"

ParseEvent(type, source, start, end, value) ==
    [type |-> type, source |-> source, start |-> start, end |-> end, value |-> value]

\* ParseEvent.text
EventText(e) == Slice(e.source, e.start, e.end)

\* ------------------------------------------------------------------------
\* Language definitions

\* dict(pairs): a later pair replaces an earlier one with the same key
DictOf(pairs) ==
    [k \in {pairs[n][1] : n \in DOMAIN pairs} |->
        LET last == CHOOSE n \in DOMAIN pairs :
                        /\ pairs[n][1] = k
                        /\ \A m \in DOMAIN pairs : pairs[m][1] = k => m <= n
        IN pairs[last][2]]

\* [(d, type) for d in delims]
Tagged(delims, type) == [n \in DOMAIN delims |-> <<delims[n], type>>]

\* BlockLanguage.__init__ for a class with the given class attributes
BlockLanguage(cls) ==
    LET blockStart == [n \in DOMAIN cls.BLOCKS |-> cls.BLOCKS[n][1]]
        blockEnd == [n \in DOMAIN cls.BLOCKS |-> cls.BLOCKS[n][2]]
    IN [escape |-> cls.ESCAPE,
        trim |-> cls.TRIM,
        statementEnd |-> cls.STATEMENT_END,
        lineEnd |-> cls.LINE_END,
        comments |-> cls.COMMENTS,
        blocks |-> cls.BLOCKS,
        quotes |-> cls.QUOTES,
        blockStart |-> blockStart,
        blockEnd |-> blockEnd,
        delimiters |-> <<cls.ESCAPE>> \o cls.COMMENTS \o blockStart \o blockEnd
                       \o cls.QUOTES \o cls.LINE_END \o cls.STATEMENT_END,
        events |-> DictOf(Tagged(cls.COMMENTS, COMMENT)
                          \o Tagged(cls.LINE_END, LINE_END)
                          \o Tagged(cls.STATEMENT_END, STATEMENT_END)
                          \o Tagged(blockStart, BLOCK_START)
                          \o Tagged(blockEnd, BLOCK_END)
                          \o Tagged(cls.QUOTES, QUOTE))]

\* ExpressionLanguage.__init__ for a class with the given class attributes
ExpressionLanguage(cls) ==
    [escape |-> cls.ESCAPE,
     trim |-> cls.TRIM,
     separators |-> cls.SEPARATORS,
     keywords |-> cls.KEYWORDS,
     opInfix |-> cls.OPERATOR_INFIX,
     opPrefix |-> cls.OPERATOR_PREFIX,
     opSuffix |-> cls.OPERATOR_SUFFIX,
     operators |-> cls.OPERATOR_INFIX \o cls.OPERATOR_PREFIX \o cls.OPERATOR_SUFFIX,
     delimiters |-> cls.SEPARATORS \o cls.KEYWORDS \o cls.OPERATOR_INFIX
                    \o cls.OPERATOR_PREFIX \o cls.OPERATOR_SUFFIX]

\* the class attributes of BlockLanguage; lang/js.py's JavaScriptBlocks repeats
\* them with one difference, its third quote is three backquotes
BlockLanguageClass ==
    [ESCAPE |-> <<"\\">>,
     TRIM |-> <<" ", "\t", "\n">>,
     STATEMENT_END |-> << <<";">>, <<":">> >>,
     LINE_END |-> << <<"\n">> >>,
     COMMENTS |-> << <<"/", "/">>, <<"#">> >>,
     BLOCKS |-> << << <<"{">>, <<"}">> >>,
                   << <<"[">>, <<"]">> >>,
                   << <<"(">>, <<")">> >>,
                   << <<"/", "*">>, <<"*", "/">> >> >>,
     QUOTES |-> << <<"\"">>, <<"'">>, <<"\"", "\"", "\"">> >>]

\* BlockLanguage()
BlockLang == BlockLanguage(BlockLanguageClass)

\* the class attributes of JavaScriptExpression
JavaScriptExpressionClass ==
    [ESCAPE |-> <<"\\">>,
     TRIM |-> <<" ", "\t", "\n">>,
     SEPARATORS |-> << <<" ">>, <<"\t">> >>,
     KEYWORDS |-> << <<"l", "e", "t">>, <<"c", "o", "n", "s", "t">>, <<"f", "o", "r">>,
                     <<"e", "l", "s", "e">>, <<"i", "f">>, <<"t", "h", "e", "n">>,
                     <<"f", "o", "r">>, <<"w", "h", "i", "l", "e">> >>,
     OPERATOR_INFIX |-> << <<"=">>, <<"!", "=">>, <<"!", "=", "=">>, <<"+", "=">>,
                           <<"*", "=">>, <<"/", "=">>, <<"+">>, <<"-">>, <<"/">>,
                           <<"*">>, <<"^">>, <<"|">>, <<"&">>, <<"|", "|">>,
                           <<"&", "&">>, <<">">>, <<"<">>, <<">", "=">>, <<"<", "=">>,
                           <<"<", "<">>, <<">", ">">> >>,
     OPERATOR_PREFIX |-> << <<"!">>, <<"-">> >>,
     OPERATOR_SUFFIX |-> << <<"+", "+">>, <<"-", "-">> >>]

\* JavaScriptExpression()
ExprLang == ExpressionLanguage(JavaScriptExpressionClass)

\* ------------------------------------------------------------------------
\* iterDelimiters

\* the default of iterDelimiters' `lookahead` parameter
Lookahead == 256

\* the extra reach of a search past the closest hit found so far
Reach == 16

DelimiterMatch(start, end, delim) == [start |-> start, end |-> end, delim |-> delim]

\* variant of TakesHit that does not look at the character before the occurrence
MutTakesAnyHit(s, escape, j, i) == j >= 0 /\ j < i

\* the test that follows text.find in the for loop: is the occurrence at j one
\* that replaces the closest hit i found so far?
TakesHit(s, escape, j, i) ==
    j >= 0 /\ j < i /\ (j = 0 \/ <<At(s, j - 1)>> # escape)

\* the for loop over the delimiters, from delimiter k on, with the locals i and d
RECURSIVE ClosestFrom(_, _, _, _, _, _, _, _)
ClosestFrom(s, delimiters, escape, lookahead, off, k, i, d) ==
    IF k > Len(delimiters) THEN [i |-> i, d |-> d]
    ELSE LET delim == delimiters[k]
             j == Find(s, delim, off, Min(i + Reach, off + lookahead))
         IN IF TakesHit(s, escape, j, i)
            THEN ClosestFrom(s, delimiters, escape, lookahead, off, k + 1, j, delim)
            ELSE ClosestFrom(s, delimiters, escape, lookahead, off, k + 1, i, d)

\* one pass of the while loop's body at offset `off`: the closest delimiter
Closest(s, delimiters, escape, lookahead, off) ==
    ClosestFrom(s, delimiters, escape, lookahead, off, 1, Len(s), None)

\* ------------------------------------------------------------------------
\* Exceptions

NoError == "none"
PlainException == "Exception"
AssertionError == "AssertionError"
IndexError == "IndexError"
ValueError == "ValueError"
TypeError == "TypeError"
RuntimeError == "RuntimeError"
NameError == "NameError"
AttributeError == "AttributeError"

\* ------------------------------------------------------------------------
\* Node (tree.py). A node is named by its place in `heap`; parent 0 is None.

NoParent == 0

\* Node(name, **attributes)
NewNode(name, attributes) ==
    [name |-> name, parent |-> NoParent, attributes |-> attributes, children |-> << >>]

\* the dict {} and the dict d after d[k] = v
NoAttributes == << >>
SetItem(d, k, v) == [x \in DOMAIN d \cup {k} |-> IF x = k THEN v ELSE d[x]]

\* Node.setAttribute
SetAttribute(h, n, k, v) ==
    [h EXCEPT ![n].attributes = SetItem(h[n].attributes, k, v)]

\* list.remove(x): the list without the first occurrence of x
ListRemove(l, x) ==
    LET k == CHOOSE k \in DOMAIN l : l[k] = x /\ \A m \in DOMAIN l : l[m] = x => k <= m
    IN SubSeq(l, 1, k - 1) \o SubSeq(l, k + 1, Len(l))

\* Node.add (and Node.append, which calls it): p.add(n)
NodeAdd(h, p, n) ==
    IF h[n].parent # NoParent
    THEN [heap |-> h, err |-> AssertionError]
    ELSE [heap |-> [h EXCEPT ![n].parent = p,
                             ![p].children = Append(h[p].children, n)],
          err |-> NoError]

\* Node.remove that takes n out of the list and forgets `node.parent = None`
MutRemoveKeepsParent(h, p, n) ==
    IF h[n].parent # p
    THEN [heap |-> h, err |-> AssertionError]
    ELSE IF n \notin Range(h[p].children)
    THEN [heap |-> h, err |-> ValueError]
    ELSE [heap |-> [h EXCEPT ![p].children = ListRemove(h[p].children, n)],
          err |-> NoError]

\* Node.remove: p.remove(n)
NodeRemove(h, p, n) ==
    IF h[n].parent # p
    THEN [heap |-> h, err |-> AssertionError]
    ELSE IF n \notin Range(h[p].children)
    THEN [heap |-> [h EXCEPT ![n].parent = NoParent], err |-> ValueError]
    ELSE [heap |-> [h EXCEPT ![n].parent = NoParent,
                             ![p].children = ListRemove(h[p].children, n)],
          err |-> NoError]

\* Node.detach
NodeDetach(h, n) ==
    IF h[n].parent # NoParent THEN NodeRemove(h, h[n].parent, n)
    ELSE [heap |-> h, err |-> NoError]

\* Node.__contains__ for a Node value: old in cur
NodeContains(h, cur, old) == old \in Range(h[cur].children)

\* the nodes of the subtree of n, n included (Node.iterWalk with no functor)
RECURSIVE Subtree(_, _)
Subtree(h, n) ==
    {n} \cup UNION {Subtree(h, h[n].children[k]) : k \in DOMAIN h[n].children}

\* the result of a Node method: the objects after it, and what it raised
Did(h, e) == [heap |-> h, err |-> e]

\* list.index(x): the 0-based place of the first occurrence of x (x is in l)
ListIndex(l, x) ==
    (CHOOSE k \in DOMAIN l : l[k] = x /\ \A m \in DOMAIN l : l[m] = x => k <= m) - 1

\* list.insert(i, x) for 0 <= i <= len(l)
ListInsert(l, i, x) == SubSeq(l, 1, i) \o <<x>> \o SubSeq(l, i + 1, Len(l))

\* Node.insert: p.insert(index, n)
NodeInsert(h, p, index, n) ==
    LET i == IF index >= 0 THEN index ELSE Len(h[p].children) + index
    IN  IF ~(i >= 0 /\ i <= Len(h[p].children)) THEN Did(h, AssertionError)
        ELSE IF h[n].parent # NoParent THEN Did(h, AssertionError)
        ELSE Did([h EXCEPT ![n].parent = p,
                           ![p].children = ListInsert(h[p].children, i, n)], NoError)

\* Node.set without its `assert not node.parent`
MutSetSkipsParentCheck(h, p, index, n) ==
    LET len == Len(h[p].children)
        j == IF index < 0 THEN len + index ELSE index
        i == Min(IF j > 0 THEN j ELSE 0, len - 1)
    IN  IF len = 0 THEN NodeAdd(h, p, n)
        ELSE Did([h EXCEPT ![p].children[i + 1] = n,
                           ![h[p].children[i + 1]].parent = NoParent,
                           ![n].parent = p], NoError)

\* Node.set: p.set(index, n)
NodeSet(h, p, index, n) ==
    LET len == Len(h[p].children)
        j == IF index < 0 THEN len + index ELSE index
        i == Min(IF j > 0 THEN j ELSE 0, len - 1)
    IN  IF h[n].parent # NoParent THEN Did(h, AssertionError)
        ELSE IF len = 0 THEN NodeAdd(h, p, n)
        ELSE Did([h EXCEPT ![p].children[i + 1] = n,
                           ![h[p].children[i + 1]].parent = NoParent,
                           ![n].parent = p], NoError)

\* `for child in children: self.append(child)`: the first call that raises ends it
RECURSIVE AppendEach(_, _, _, _)
AppendEach(h, p, children, k) ==
    IF k > Len(children) THEN Did(h, NoError)
    ELSE LET r == NodeAdd(h, p, children[k])
         IN  IF r.err # NoError THEN r ELSE AppendEach(r.heap, p, children, k + 1)

\* `for child in self.children: child.parent = None`
RECURSIVE Orphan(_, _, _)
Orphan(h, children, k) ==
    IF k > Len(children) THEN h
    ELSE Orphan([h EXCEPT ![children[k]].parent = NoParent], children, k + 1)

\* Node.setChildren: p.setChildren(children)
NodeSetChildren(h, p, children) ==
    LET cleared == IF h[p].children # << >>
                   THEN [Orphan(h, h[p].children, 1) EXCEPT ![p].children = << >>]
                   ELSE h
    IN  AppendEach(cleared, p, children, 1)

\* `self.add(c.detach())` for each c of a list: the first call that raises ends it
RECURSIVE AdoptEach(_, _, _, _)
AdoptEach(h, p, nodes, k) ==
    IF k > Len(nodes) THEN Did(h, NoError)
    ELSE LET d == NodeDetach(h, nodes[k])
         IN  IF d.err # NoError THEN d
             ELSE LET r == NodeAdd(d.heap, p, nodes[k])
                  IN  IF r.err # NoError THEN r ELSE AdoptEach(r.heap, p, nodes, k + 1)

\* Node.extend: p.extend(nodes)
NodeExtend(h, p, nodes) == AdoptEach(h, p, nodes, 1)

\* the dict `mine` after `for k, v in theirs.items(): if replace or k not in mine: mine[k] = v`
MergeAttributes(mine, theirs, replace) ==
    [k \in DOMAIN mine \cup DOMAIN theirs |->
        IF k \in DOMAIN theirs /\ (replace \/ k \notin DOMAIN mine) THEN theirs[k] ELSE mine[k]]

\* Node.merge: p.merge(n, attributes, replace)
NodeMerge(h, p, n, attributes, replace) ==
    LET children == h[n].children
        merged == IF attributes
                  THEN [h EXCEPT ![p].attributes =
                            MergeAttributes(h[p].attributes, h[n].attributes, replace)]
                  ELSE h
    IN  AdoptEach(merged, p, children, 1)

\* Node.absorb: p.absorb(n)
NodeAbsorb(h, p, n) ==
    LET d == NodeDetach(h, n)
    IN  IF d.err # NoError THEN d ELSE NodeMerge(d.heap, p, n, TRUE, FALSE)

\* Node.wrap: n.wrap(node)
NodeWrap(h, n, node) ==
    LET parent == h[n].parent
        placed == IF parent = NoParent THEN Did(h, NoError)
                  ELSE IF n \notin Range(h[parent].children) THEN Did(h, ValueError)
                  ELSE NodeSet(h, parent, ListIndex(h[parent].children, n), node)
    IN  IF placed.err # NoError THEN placed ELSE NodeAdd(placed.heap, node, n)

\* Node.replaceWith, the loop `for i in range(len(nodes) - 1, -1, -1)`
RECURSIVE InsertEach(_, _, _, _, _)
InsertEach(h, n, index, nodes, i) ==
    IF i < 1 THEN Did(h, NoError)
    ELSE LET r == IF h[n].parent # NoParent
                  THEN NodeInsert(h, h[n].parent, index, nodes[i]) ELSE Did(h, NoError)
         IN  IF r.err # NoError THEN r ELSE InsertEach(r.heap, n, index, nodes, i - 1)

\* a replaceWith that leaves out its last line, self.detach()
MutReplaceWithStays(h, n, nodes) ==
    IF h[n].parent = NoParent THEN Did(h, AssertionError)
    ELSE IF n \notin Range(h[h[n].parent].children) THEN Did(h, ValueError)
    ELSE InsertEach(h, n, ListIndex(h[h[n].parent].children, n), nodes, Len(nodes))

\* Node.replaceWith: n.replaceWith(nodes)
NodeReplaceWith(h, n, nodes) ==
    IF h[n].parent = NoParent THEN Did(h, AssertionError)
    ELSE IF n \notin Range(h[h[n].parent].children) THEN Did(h, ValueError)
    ELSE LET r == InsertEach(h, n, ListIndex(h[h[n].parent].children, n), nodes, Len(nodes))
         IN  IF r.err # NoError THEN r ELSE NodeDetach(r.heap, n)

\* ------------------------------------------------------------------------
\* TreeExtractor (transform.py)

\* a stack entry: the tuple (node, eventType)
Frame(node, eventType) == [node |-> node, awaits |-> eventType]

\* TreeExtractor.reset: self.value and self.stack
RootNode == 1
ResetHeap == <<NewNode("root", NoAttributes)>>
ResetStack == <<Frame(RootNode, "")>>

\* the outcome of a method of the extractor: the objects after it, and what it raised
Outcome(h, st, e) == [heap |-> h, stack |-> st, err |-> e]

\* what feed returns: no branch of TreeExtractor.feed has a return statement
FeedReturns == "None"

\* variant of PostProcess that raises when a frame above the root is still open
MutPostProcessRejectsOpenFrames(h, st) ==
    IF Len(st) > 1 THEN PlainException ELSE NoError

\* TreeExtractor.postProcess: it returns self.value and raises nothing
PostProcess(h, st) == NoError

\* TreeExtractor.current and TreeExtractor.currentEvent, for a non-empty stack
Current(st) == st[Len(st)].node
CurrentEvent(st) == st[Len(st)].awaits

\* TreeExtractor.node: the heap with the new node, which is its last
ExtractorNode(h, wo, event, name, attributes) ==
    LET h1 == Append(h, NewNode(name, attributes))
        n == Len(h1)
    IN IF wo
       THEN SetAttribute(SetAttribute(h1, n, "start", event.start), n, "end", event.end)
       ELSE h1

\* variant of ExtractorPop that leaves a comment frame in place
MutPopKeepsFrame(h, st) ==
    IF st = << >> THEN Outcome(h, st, IndexError)
    ELSE IF Len(st) = 1 THEN Outcome(h, << >>, PlainException)
    ELSE IF st[Len(st)].awaits = LINE_END
    THEN Outcome(h, st, NoError)
    ELSE Outcome(h, SubSeq(st, 1, Len(st) - 1), NoError)

\* variant of ExtractorPop that does not raise when it pops the last frame
MutPopAtRootReturns(h, st) ==
    IF st = << >> THEN Outcome(h, st, IndexError)
    ELSE Outcome(h, SubSeq(st, 1, Len(st) - 1), NoError)

\* TreeExtractor.pop
ExtractorPop(h, st) ==
    IF st = << >> THEN Outcome(h, st, IndexError)
    ELSE LET old == st[Len(st)].node
             rest == SubSeq(st, 1, Len(st) - 1)
         IN IF rest = << >> THEN Outcome(h, rest, PlainException)
            ELSE IF ~NodeContains(h, Current(rest), old)
            THEN Outcome(h, rest, AssertionError)
            ELSE Outcome(h, rest, NoError)

\* TreeExtractor.append of the node built last
AppendLast(h, st) ==
    IF st = << >> THEN Outcome(h, st, IndexError)
    ELSE LET r == NodeAdd(h, Current(st), Len(h))
         IN Outcome(r.heap, st, r.err)

\* variant of OpenScope that pushes the new node without appending it to the current one
MutPushesUnappended(h, st, wo, event, name, attributes, eventType) ==
    LET h1 == ExtractorNode(h, wo, event, name, attributes)
    IN Outcome(h1, Append(st, Frame(Len(h1), eventType)), NoError)

\* self.push(self.append(self.node(event, name, ...)), eventType)
OpenScope(h, st, wo, event, name, attributes, eventType) ==
    LET r == AppendLast(ExtractorNode(h, wo, event, name, attributes), st)
    IN IF r.err # NoError THEN r
       ELSE Outcome(r.heap, Append(st, Frame(Len(r.heap), eventType)), NoError)

\* self.append(self.node(event, name, value=event.text))
Leaf(h, st, wo, event, name) ==
    AppendLast(ExtractorNode(h, wo, event, name,
                             SetItem(NoAttributes, "value", EventText(event))), st)

\* next((i for i, n in enumerate(reversed(children)) if n.name == "statement"), 0)
PrevStatement(h, children) ==
    LET n == Len(children)
        at == {i \in 0..(n - 1) : h[children[n - i]].name = "statement"}
    IN IF at = {} THEN 0 ELSE CHOOSE i \in at : \A k \in at : i <= k

RECURSIVE MoveInto(_, _, _, _)

\* a loop that ends after the first child it moves
MutMovesOnlyFirst(h, node, moved, k) ==
    IF k > Len(moved) THEN [heap |-> h, err |-> NoError]
    ELSE LET d == NodeDetach(h, moved[k])
         IN IF d.err # NoError THEN d ELSE NodeAdd(d.heap, node, moved[k])

\* for child in moved: node.add(child.detach()), from the k-th child on
MoveInto(h, node, moved, k) ==
    IF k > Len(moved) THEN [heap |-> h, err |-> NoError]
    ELSE LET d == NodeDetach(h, moved[k])
         IN IF d.err # NoError THEN d
            ELSE LET a == NodeAdd(d.heap, node, moved[k])
                 IN IF a.err # NoError THEN a
                    ELSE MoveInto(a.heap, node, moved, k + 1)

\* the STATEMENT_END branch of feed
EndStatement(h, st, wo, event) ==
    IF st = << >> THEN Outcome(h, st, IndexError)
    ELSE LET children == h[Current(st)].children
             prev_statement == PrevStatement(h, children)
             h1 == ExtractorNode(h, wo, event, "statement", NoAttributes)
             m == MoveInto(h1, Len(h1), SubSeq(children, prev_statement + 1, Len(children)), 1)
         IN IF m.err # NoError THEN Outcome(m.heap, st, m.err)
            ELSE LET r == NodeAdd(m.heap, Current(st), Len(h1))
                 IN Outcome(r.heap, st, r.err)

\* variant of EndLine that pops whatever frame is on top
MutEndLinePopsAnyFrame(h, st) == ExtractorPop(h, st)

\* the LINE_END branch of feed
EndLine(h, st) ==
    IF st = << >> THEN Outcome(h, st, IndexError)
    ELSE IF CurrentEvent(st) = LINE_END THEN ExtractorPop(h, st)
    ELSE Outcome(h, st, NoError)

\* TreeExtractor.feed
ExtractorFeed(h, st, wo, event) ==
    CASE event.type = COMMENT ->
            OpenScope(h, st, wo, event, "comment", NoAttributes, LINE_END)
      [] event.type = BLOCK_START ->
            OpenScope(h, st, wo, event, "block",
                      SetItem(NoAttributes, "type", event.value), event.type)
      [] event.type = LINE_END -> EndLine(h, st)
      [] event.type = STATEMENT_END -> EndStatement(h, st, wo, event)
      [] event.type = BLOCK_END -> ExtractorPop(h, st)
      [] event.type = QUOTE -> Leaf(h, st, wo, event, "quote")
      [] event.type = TEXT -> Leaf(h, st, wo, event, "text")
      [] event.type = KEYWORD -> Leaf(h, st, wo, event, "keyword")
      [] event.type = OPERATOR_INFIX -> Leaf(h, st, wo, event, "op-inf")
      [] event.type = OPERATOR_SUFFIX -> Leaf(h, st, wo, event, "op-suf")
      [] event.type = OPERATOR_PREFIX -> Leaf(h, st, wo, event, "op-pre")
      [] OTHER -> Outcome(h, st, ValueError)

\* ------------------------------------------------------------------------
\* The classifiers (parser.py)

NoHit == DelimiterMatch(-1, -1, None)

\* c in chars, for a one-character c and a str chars
CharIn(c, chars) == c \in Range(chars)

\* trim: the first loop, then the second
RECURSIVE TrimStart(_, _, _, _)
TrimStart(s, chars, start, end) ==
    IF start < end /\ CharIn(At(s, start), chars)
    THEN TrimStart(s, chars, start + 1, end) ELSE start
RECURSIVE TrimEnd(_, _, _, _)
TrimEnd(s, chars, start, end) ==
    IF start < end /\ CharIn(At(s, end - 1), chars)
    THEN TrimEnd(s, chars, start, end - 1) ELSE end
Trim(s, chars, start, end) ==
    LET start1 == TrimStart(s, chars, start, end)
    IN <<start1, TrimEnd(s, chars, start1, end)>>

\* what one pass of a classifier's for loop does: the events it yields, its
\* locals after it, and the exception that ends it
Pass(yielded, qt, qs, off, e) ==
    [events |-> yielded, quote_type |-> qt, quote_start |-> qs, offset |-> off, err |-> e]

\* events.get(key), whose None for a missing key is "" here: event types are non-empty
\* strings and `elif event_type:` treats None and "" alike
NoEventType == ""
DictGet(d, k) == IF k \in DOMAIN d THEN d[k] ELSE NoEventType

\* BlockParser.parse: the text event for the span before a delimiter
TextBefore(s, lang, start, delim_start) ==
    IF start < delim_start
    THEN LET t == Trim(s, lang.trim, start, delim_start)
         IN IF t[1] < t[2] THEN <<ParseEvent(TEXT, s, t[1], t[2], None)>> ELSE << >>
    ELSE << >>

\* variant of InQuote that yields an event for a delimiter inside the quote
MutQuoteLeaks(s, m, qt, qs) ==
    IF m.delim # qt
    THEN Pass(<<ParseEvent(TEXT, s, m.start, m.end, None)>>, qt, qs, 0, NoError)
    ELSE Pass(<<ParseEvent(QUOTE, s, qs, m.end, m.delim)>>, None, qs, 0, NoError)

\* BlockParser.parse: the branch taken inside a quote
InQuote(s, m, qt, qs) ==
    IF m.delim # qt THEN Pass(<< >>, qt, qs, 0, NoError)
    ELSE Pass(<<ParseEvent(QUOTE, s, qs, m.end, m.delim)>>, None, qs, 0, NoError)

\* BlockParser.parse: the branch taken outside a quote
OutsideQuote(s, lang, m, qt, qs) ==
    IF m.delim = None THEN Pass(<< >>, qt, qs, 0, TypeError)
    ELSE LET delim_start == m.end - Len(m.delim)
             before == TextBefore(s, lang, m.start, delim_start)
             event_type == DictGet(lang.events, m.delim)
         IN IF event_type = QUOTE THEN Pass(before, m.delim, delim_start, 0, NoError)
            ELSE IF event_type # NoEventType
            THEN Pass(before \o <<ParseEvent(event_type, s, delim_start, m.end, m.delim)>>,
                      qt, qs, 0, NoError)
            ELSE Pass(before, qt, qs, 0, ValueError)

\* BlockParser.parse: the body of the for loop for the match m
BlockParserPass(s, lang, m, qt, qs) ==
    IF qt # None THEN InQuote(s, m, qt, qs) ELSE OutsideQuote(s, lang, m, qt, qs)

\* x in l, for a list l
ListIn(x, l) == x \in Range(l)

\* ExpressionParser.parse: the event for the delimiter of the match m
DelimiterEvents(lang, m) ==
    IF m.delim = None THEN << >>
    ELSE IF ListIn(m.delim, lang.keywords)
    THEN <<ParseEvent(KEYWORD, m.delim, m.start, m.end, m.delim)>>
    ELSE IF ListIn(m.delim, lang.opInfix)
    THEN <<ParseEvent(OPERATOR_INFIX, m.delim, m.start, m.end, m.delim)>>
    ELSE IF ListIn(m.delim, lang.opPrefix)
    THEN <<ParseEvent(OPERATOR_PREFIX, m.delim, m.start, m.end, m.delim)>>
    ELSE IF ListIn(m.delim, lang.opSuffix)
    THEN <<ParseEvent(OPERATOR_SUFFIX, m.delim, m.start, m.end, m.delim)>>
    ELSE << >>

\* ExpressionParser.parse: the body of the for loop for the match m
ExpressionParserPass(s, lang, m, off) ==
    LET gap == IF off < m.start THEN <<ParseEvent(TEXT, s, off, m.start, None)>> ELSE << >>
    IN IF m.delim # None /\ ~ListIn(m.delim, lang.delimiters)
       THEN Pass(gap, None, -1, off, RuntimeError)
       ELSE Pass(gap \o DelimiterEvents(lang, m), None, -1, m.end, NoError)

\* variant of ExpressionParserRest that yields nothing after the loop
MutRestDropsTrailing(s, off) == << >>

\* ExpressionParser.parse: what follows the for loop
ExpressionParserRest(s, off) ==
    IF off < Len(s) THEN <<ParseEvent(TEXT, s, off, Len(s), None)>> ELSE << >>

\* ------------------------------------------------------------------------
\* Inputs

\* the longest text drawn from an alphabet, and the longest stream of events fed directly
MaxTextLen == 3
MaxEvents == 5

TextsOver(chars) == UNION {[1..k -> chars] : k \in 0..MaxTextLen}

\* the characters the short texts for BlockParser are drawn from
BlockChars == {"a", " ", ";", "\"", "\\", "{", "}"}

\* the two texts of tests/lang-js.py, with the one statement of the first alone, and
\* a quoted statement terminator
LetA10 ==
    <<"l", "e", "t", " ", "a", " ", "=", " ", "1", "0", ";">>
LetConst ==
    <<"l", "e", "t", " ", "a", " ", "=", " ", "1", "0", ";", "c", "o", "n", "s", "t", " ",
      "b", " ", "=", " ", "2", "0", ";">>
IfElseFor ==
    <<"i", "f", " ", "(", "t", "r", "u", "e", ")", " ", "{", "a", "=", "1", "0", ";", "}",
      " ", "e", "l", "s", "e", " ", "{", "a", "=", "2", "0", "}", " ", "f", "o", "r", " ",
      "(", "l", "e", "t", " ", "a", "=", "0", ";", "i", "<", "1", "0", ";", "i", "+", "+",
      ")", "{", "}", "\n">>
QuotedSemicolon ==
    <<"a", " ", "\"", "b", " ", ";", " ", "c", "\"", " ", "d">>
BlockTexts == TextsOver(BlockChars) \cup {LetA10, LetConst, IfElseFor, QuotedSemicolon}

\* the characters the short texts for ExpressionParser are drawn from, and the text
\* of tests/lang-js-expr.py
ExprChars == {"a", "i", "f", " ", "=", "!", "\\"}
LetA10Expr ==
    <<"l", "e", "t", " ", "a", " ", "=", " ", "1", "0">>
ExprTexts == TextsOver(ExprChars) \cup {LetA10Expr}

\* the events fed directly to a TreeExtractor: spans of FeedSource
FeedSource == <<"#", "a", "{", "}", ")", ";", "\n", "\"", "b", "\"">>
FeedEvents ==
    {ParseEvent(COMMENT, FeedSource, 0, 1, <<"#">>),
     ParseEvent(TEXT, FeedSource, 1, 2, None),
     ParseEvent(BLOCK_START, FeedSource, 2, 3, <<"{">>),
     ParseEvent(BLOCK_END, FeedSource, 3, 4, <<"}">>),
     ParseEvent(BLOCK_END, FeedSource, 4, 5, <<")">>),
     ParseEvent(STATEMENT_END, FeedSource, 5, 6, <<";">>),
     ParseEvent(LINE_END, FeedSource, 6, 7, <<"\n">>),
     ParseEvent(QUOTE, FeedSource, 7, 10, <<"\"">>),
     ParseEvent(":unknown", FeedSource, 0, 0, None)}

\* ------------------------------------------------------------------------
\* The state machine

\* no call made yet
NoCall == [op |-> "none"]

\* TreeExtractor(offsets), before any event
InitExtractor ==
    /\ withOffsets \in BOOLEAN
    /\ heap = ResetHeap
    /\ stack = ResetStack
    /\ events = << >>
    /\ fed = 0
    /\ err = NoError
    /\ raised = FALSE
    /\ diagnostics = << >>
    /\ pc = "run"
    /\ call = NoCall

\* extractor.process(parser.parse(text)) about to start
Init ==
    /\ \/ parser = "block" /\ text \in BlockTexts
       \/ parser = "expr" /\ text \in ExprTexts
    /\ offset = 0
    /\ scanned = FALSE
    /\ hit = NoHit
    /\ hits = << >>
    /\ quote_type = None
    /\ quote_start = -1
    /\ expr_offset = 0
    /\ parsed = FALSE
    /\ parse_err = NoError
    /\ InitExtractor

\* a TreeExtractor whose feed is called directly, or through process, with events
\* that no parser made
InitFeed ==
    /\ parser = "none"
    /\ text = << >>
    /\ offset = 0
    /\ scanned = TRUE
    /\ hit = NoHit
    /\ hits = << >>
    /\ quote_type = None
    /\ quote_start = -1
    /\ expr_offset = 0
    /\ parsed = TRUE
    /\ parse_err = NoError
    /\ InitExtractor

Lang == IF parser = "block" THEN BlockLang ELSE ExprLang

\* variant of SkipTo that leaves the offset where it is
MutSkipStays(off, lookahead, end) == off

\* iterDelimiters, no delimiter found: i = min(offset+lookahead, end)
SkipTo(off, lookahead, end) == Min(off + lookahead, end)

\* iterDelimiters(text, delimiters, escape, lookahead): one pass of the while loop, or
\* what follows the loop
IterDelimitersPass(delimiters, escape, lookahead) ==
    IF offset < Len(text)
    THEN \E c \in {Closest(text, delimiters, escape, lookahead, offset)} :
            IF c.d # None
            THEN /\ hit' = DelimiterMatch(c.i, c.i + Len(c.d), c.d)
                 /\ hits' = Append(hits, hit')
                 /\ offset' = c.i + Len(c.d)
                 /\ scanned' = FALSE
            ELSE /\ offset' = SkipTo(offset, lookahead, Len(text))
                 /\ UNCHANGED <<hit, hits, scanned>>
    ELSE IF offset < Len(text)
         THEN /\ hit' = DelimiterMatch(offset, Len(text), None)
              /\ hits' = Append(hits, hit')
              /\ scanned' = TRUE
              /\ UNCHANGED offset
         ELSE /\ scanned' = TRUE
              /\ UNCHANGED <<hit, hits, offset>>

\* iterDelimiters as a classifier calls it, resumed when the classifier asks for the
\* next match
IterDelimitersStep ==
    /\ pc = "run" /\ parser # "none"
    /\ ~scanned /\ hit = NoHit /\ fed = Len(events) /\ parse_err = NoError
    /\ IterDelimitersPass(Lang.delimiters, Lang.escape, Lookahead)
    /\ UNCHANGED <<text, parser, classVars, events, fed, treeVars, withOffsets, err, raised,
                   diagnostics, pc, call>>

\* a classifier takes the match the scanner yielded through one pass of its for loop
Classify(pass) ==
    \E r \in {pass} :
    /\ events' = events \o r.events
    /\ quote_type' = r.quote_type
    /\ quote_start' = r.quote_start
    /\ expr_offset' = r.offset
    /\ parse_err' = r.err
    /\ hit' = NoHit
    /\ UNCHANGED <<text, parser, offset, scanned, hits, parsed, fed, treeVars,
                   withOffsets, err, raised, diagnostics, pc, call>>

BlockParserStep ==
    /\ pc = "run" /\ parser = "block" /\ hit # NoHit
    /\ Classify(BlockParserPass(text, BlockLang, hit, quote_type, quote_start))

ExpressionParserStep ==
    /\ pc = "run" /\ parser = "expr" /\ hit # NoHit
    /\ Classify(ExpressionParserPass(text, ExprLang, hit, expr_offset))

\* the scanner is exhausted: the classifier leaves its loop and is exhausted too
ParserEnd ==
    /\ pc = "run" /\ parser # "none"
    /\ scanned /\ hit = NoHit /\ ~parsed /\ parse_err = NoError
    /\ events' = IF parser = "expr"
                 THEN events \o ExpressionParserRest(text, expr_offset) ELSE events
    /\ parsed' = TRUE
    /\ UNCHANGED <<text, parser, scanVars, quote_type, quote_start, expr_offset,
                   parse_err, fed, treeVars, withOffsets, err, raised, diagnostics, pc, call>>

\* res = self.feed(event) on this extractor, and `if res: yield res`
Fed(event) ==
    \E r \in {ExtractorFeed(heap, stack, withOffsets, event)} :
       /\ heap' = r.heap
       /\ stack' = r.stack
       /\ err' = r.err
       /\ raised' = (raised \/ r.err # NoError)
       /\ diagnostics' = IF r.err = NoError /\ FeedReturns # "None"
                         THEN Append(diagnostics, FeedReturns) ELSE diagnostics

\* Transform.process: the loop takes the next event of the stream and feeds it; an
\* exception of feed leaves process
ProcessFeed ==
    /\ pc = "run" /\ parser # "none"
    /\ fed < Len(events)
    /\ Fed(events[fed + 1])
    /\ fed' = fed + 1
    /\ pc' = IF err' # NoError THEN "raised" ELSE "run"
    /\ UNCHANGED <<text, parser, scanVars, classVars, events, withOffsets, call>>

\* Transform.process: the stream is exhausted and postProcess runs, or the stream
\* raised and process propagates it
ProcessEnd ==
    /\ pc = "run" /\ ~raised
    /\ fed = Len(events)
    /\ parsed \/ parse_err # NoError
    /\ err' = IF parse_err # NoError THEN parse_err ELSE PostProcess(heap, stack)
    /\ pc' = IF err' # NoError THEN "raised" ELSE "done"
    /\ UNCHANGED <<text, parser, scanVars, classVars, events, fed, treeVars,
                   withOffsets, raised, diagnostics, call>>

\* feed called with an event no parser made; a caller that calls feed itself may
\* go on after an exception
Feed ==
    /\ pc = "run" /\ parser = "none"
    /\ Len(events) < MaxEvents
    /\ \E event \in FeedEvents :
        /\ Fed(event)
        /\ events' = Append(events, event)
    /\ fed' = fed + 1
    /\ UNCHANGED <<text, parser, scanVars, classVars, withOffsets, pc, call>>

Next ==
    \/ IterDelimitersStep
    \/ BlockParserStep
    \/ ExpressionParserStep
    \/ ParserEnd
    \/ ProcessFeed
    \/ ProcessEnd

NextFeed ==
    \/ Feed
    \/ ProcessEnd

\* ------------------------------------------------------------------------
\* TreeProcessor and TreeTransform (tree.py)

\* None, where the source holds a Node or None
NoNode == NoParent

\* Node.firstChild
FirstChild(h, n) == IF h[n].children # << >> THEN h[n].children[1] ELSE NoNode

\* the result of a sibling property: the node (or None), or the ValueError of
\* siblings.index(self)
Found(n, e) == [node |-> n, err |-> e]

\* Node.nextSibling
NextSibling(h, n) ==
    IF h[n].parent = NoParent THEN Found(NoNode, NoError)
    ELSE LET siblings == h[h[n].parent].children
         IN  IF n \notin Range(siblings) THEN Found(NoNode, ValueError)
             ELSE LET i == ListIndex(siblings, n)
                  IN  Found(IF i + 1 < Len(siblings) THEN siblings[i + 2] ELSE NoNode, NoError)

\* Node.previousSibling
PreviousSibling(h, n) ==
    IF h[n].parent = NoParent THEN Found(NoNode, NoError)
    ELSE LET siblings == h[h[n].parent].children
         IN  IF n \notin Range(siblings) THEN Found(NoNode, ValueError)
             ELSE LET i == ListIndex(siblings, n)
                  IN  Found(IF i > 0 THEN siblings[i] ELSE NoNode, NoError)

\* the processor classes: TreeProcessor, TreeTransform, the two transforms of
\* transform.py, and a TreeTransform whose comment handler takes the next sibling
\* of the comment as the comment's child
TreeProcessorClass == "TreeProcessor"
TreeTransformClass == "TreeTransform"
NormalizeTreeClass == "NormalizeTree"
CommentProcessorClass == "CommentProcessor"
AdoptNextClass == "AdoptNext"

\* a TreeTransform subclass whose on_comment inserts a new text node before the
\* comment and a new block node after it
InsertAroundClass == "InsertAround"

\* TreeProcessor.__init__: self.matches, the node names of the on_ methods
Matches(cls) ==
    CASE cls = NormalizeTreeClass -> {"text", "statement", "comment"}
      [] cls = CommentProcessorClass -> {"block", "text"}
      [] cls = AdoptNextClass -> {"comment"}
      [] cls = InsertAroundClass -> {"comment"}
      [] OTHER -> {}

\* whether catchall is TreeTransform's
IsTransform(cls) == cls # TreeProcessorClass

\* what a dispatch has done: the objects, the values yielded (a Node or None), the
\* nodes given to feed so far with the processor that was given them, and the
\* exception raised
Walked(h, out, log, e) == [heap |-> h, out |-> out, log |-> log, err |-> e]

\* feed was given node n by a processor of class cls
Dispatch(cls, n) == [by |-> cls, node |-> n]

\* iter(r) in TreeTransform.catchall: the children of a Node through __getitem__, and
\* for None the TypeError that makes catchall yield r itself
IterResult(h, r) == IF r = NoNode THEN <<NoNode>> ELSE h[r].children

\* the last value of a sequence of yields, None when there is none
LastYield(out) == IF out = << >> THEN NoNode ELSE out[Len(out)]

\* ------------------------------------------------------------------------
\* iterMatches (parser.py) over CommentProcessor.PATTERNS (transform.py)

\* the character classes [a-z], [0-9] and \s of the patterns
Lower == {"a", "b", "c", "d", "e", "f", "g", "h", "i", "j", "k", "l", "m",
          "n", "o", "p", "q", "r", "s", "t", "u", "v", "w", "x", "y", "z"}
Digit == {"0", "1", "2", "3", "4", "5", "6", "7", "8", "9"}
Whitespace == {" ", "\t", "\n", "\r", "\f"}

\* the two patterns, by the node name PATTERNS gives them, and None for no pattern
DirectivePattern == "directive"
SeparatorPattern == "separator"
NoPattern == ""

\* where the longest run of characters of `class` that starts at offset i ends
RECURSIVE RunEnd(_, _, _)
RunEnd(s, class, i) ==
    IF i < Len(s) /\ At(s, i) \in class THEN RunEnd(s, class, i + 1) ELSE i

\* pattern.match(text, i): the end of the match that starts at offset i, or -1.
\* "@(?P<value>[a-z][a-z0-9]+)" and "--\s+|―\s*" (no text here holds the bar)
MatchEnd(pattern, s, i) ==
    IF pattern = DirectivePattern
    THEN IF /\ i + 2 < Len(s) /\ At(s, i) = "@" /\ At(s, i + 1) \in Lower
            /\ At(s, i + 2) \in Lower \cup Digit
         THEN RunEnd(s, Lower \cup Digit, i + 2) ELSE -1
    ELSE IF /\ i + 2 < Len(s) /\ At(s, i) = "-" /\ At(s, i + 1) = "-"
            /\ At(s, i + 2) \in Whitespace
         THEN RunEnd(s, Whitespace, i + 2) ELSE -1

\* a re.Match: its span and the pattern it is of
ReMatch(pattern, start, end) == [pattern |-> pattern, start |-> start, end |-> end]

\* pattern.finditer(text): the matches from left to right, none overlapping
RECURSIVE FindIter(_, _, _)
FindIter(pattern, s, i) ==
    IF i >= Len(s) THEN << >>
    ELSE LET e == MatchEnd(pattern, s, i)
         IN  IF e >= 0 THEN <<ReMatch(pattern, i, e)>> \o FindIter(pattern, s, e)
             ELSE FindIter(pattern, s, i + 1)

\* the sort key of iterMatches: start * n + length
MatchKey(m, n) == m.start * n + (m.end - m.start)

\* sorted(matches, key): the matches of `rest` put one by one into `done`, each after
\* those of a key not greater than its own (the sort is stable)
RECURSIVE SortedByKey(_, _, _)
SortedByKey(done, rest, n) ==
    IF rest = << >> THEN done
    ELSE LET m == Head(rest)
             k == Cardinality({j \in DOMAIN done : MatchKey(done[j], n) <= MatchKey(m, n)})
         IN  SortedByKey(SubSeq(done, 1, k) \o <<m>> \o SubSeq(done, k + 1, Len(done)),
                         Tail(rest), n)

\* a tuple iterMatches yields: (start, end, pattern, match or str)
Yielded(start, end, pattern, value) ==
    [start |-> start, end |-> end, pattern |-> pattern, value |-> value]

\* iterMatches: the for loop over the sorted matches, then the text that is left
RECURSIVE IterMatchesFrom(_, _, _, _)
IterMatchesFrom(s, matches, k, off) ==
    IF k > Len(matches)
    THEN IF off < Len(s) THEN <<Yielded(off, Len(s), NoPattern, Slice(s, off, Len(s)))>>
         ELSE << >>
    ELSE LET m == matches[k]
         IN  (IF m.start # off
              THEN <<Yielded(0, m.start, NoPattern, Slice(s, off, m.start))>> ELSE << >>)
             \o <<Yielded(m.start, m.end, m.pattern, m)>>
             \o IterMatchesFrom(s, matches, k + 1, m.end)

\* iterMatches(text, [directive, separator])
IterMatches(s) ==
    IterMatchesFrom(s, SortedByKey(<< >>, FindIter(DirectivePattern, s, 0)
                                          \o FindIter(SeparatorPattern, s, 0), Len(s)), 1, 0)

\* str.strip()
RECURSIVE Strip(_)
Strip(s) ==
    IF s # << >> /\ Head(s) \in Whitespace THEN Strip(Tail(s))
    ELSE IF s # << >> /\ s[Len(s)] \in Whitespace THEN Strip(SubSeq(s, 1, Len(s) - 1))
    ELSE s

\* str.split(","): the pieces between the commas, one piece when there is none
RECURSIVE Split(_, _)
Split(s, piece) ==
    IF s = << >> THEN <<piece>>
    ELSE IF Head(s) = "," THEN <<piece>> \o Split(Tail(s), << >>)
    ELSE Split(Tail(s), Append(piece, Head(s)))

\* ------------------------------------------------------------------------
\* The handlers of CommentProcessor and NormalizeTree (transform.py)

\* the dict d after `del d[k]`
DelItem(d, k) == [x \in DOMAIN d \ {k} |-> d[x]]

\* what a handler's loop has built: the objects, the list `res`, the exception
Built(h, res, e) == [heap |-> h, res |-> res, err |-> e]

\* CommentProcessor.on_text, the loop over iterMatches: one child node per tuple
RECURSIVE ParsedChildren(_, _, _, _, _)
ParsedChildren(h, node, tuples, k, res) ==
    IF k > Len(tuples) THEN Built(h, res, NoError)
    ELSE LET t == tuples[k]
             name == IF t.pattern # NoPattern THEN t.pattern ELSE "text"
             value == IF t.pattern = DirectivePattern
                      THEN Slice(h[node].attributes.value, t.value.start + 1, t.value.end)
                      ELSE IF t.pattern = SeparatorPattern THEN None
                      ELSE Slice(h[node].attributes.value, t.start, t.end)
             attributes == IF value # None THEN SetItem(NoAttributes, "value", value)
                           ELSE NoAttributes
             h1 == Append(h, NewNode(name, attributes))
             child == Len(h1)
         IN  IF "start" \notin DOMAIN h[node].attributes THEN Built(h1, res, IndexError)
             ELSE ParsedChildren(
                     SetAttribute(SetAttribute(h1, child, "start",
                                               h[node].attributes.start + t.start),
                                  child, "end", h[node].attributes.start + t.end),
                     node, tuples, k + 1, Append(res, child))

\* CommentProcessor.on_text
CommentOnText(h, node) ==
    IF "value" \notin DOMAIN h[node].attributes THEN Did(h, IndexError)
    ELSE IF h[node].children # << >> THEN Did(h, AssertionError)
    ELSE LET b == ParsedChildren(h, node, IterMatches(h[node].attributes.value), 1, << >>)
         IN  IF b.err # NoError THEN Did(b.heap, b.err)
             ELSE NodeReplaceWith(
                     [b.heap EXCEPT ![node].name = "parsed-comment",
                                    ![node].attributes = DelItem(b.heap[node].attributes, "value")],
                     node, b.res)

\* node.walk(processor=lambda _: _["value"] if "value" in _ else ""), joined
RECURSIVE JoinedValues(_, _)
RECURSIVE JoinedValuesOf(_, _, _)
JoinedValues(h, n) ==
    (IF "value" \in DOMAIN h[n].attributes THEN h[n].attributes.value ELSE << >>)
    \o JoinedValuesOf(h, h[n].children, 1)
JoinedValuesOf(h, ns, k) ==
    IF k > Len(ns) THEN << >> ELSE JoinedValues(h, ns[k]) \o JoinedValuesOf(h, ns, k + 1)

\* [Node("text", value=_.strip()) for _ in pieces]
RECURSIVE ArgNodes(_, _, _, _)
ArgNodes(h, pieces, k, res) ==
    IF k > Len(pieces) THEN Built(h, res, NoError)
    ELSE LET h1 == Append(h, NewNode("text", SetItem(NoAttributes, "value", Strip(pieces[k]))))
         IN  ArgNodes(h1, pieces, k + 1, Append(res, Len(h1)))

\* CommentProcessor.on_block
CommentOnBlock(h, node) ==
    IF "type" \notin DOMAIN h[node].attributes THEN Did(h, IndexError)
    ELSE IF h[node].attributes.type # <<"(">> THEN Did(h, NoError)
    ELSE LET args == ArgNodes(h, Split(JoinedValues(h, node), << >>), 1, << >>)
             set == NodeSetChildren(args.heap, node, args.res)
             named == [set.heap EXCEPT ![node].name = "args"]
             prev == PreviousSibling(named, node)
         IN  IF set.err # NoError THEN set
             ELSE IF prev.err # NoError THEN Did(named, prev.err)
             ELSE IF prev.node # NoNode /\ named[prev.node].name = "directive"
             THEN LET d == NodeDetach(named, node)
                  IN  IF d.err # NoError THEN d ELSE NodeAdd(d.heap, prev.node, node)
             ELSE Did(named, NoError)

\* NormalizeTree.on_statement, the while loop: the statement takes its next sibling
\* as long as that is a text
RECURSIVE AbsorbTexts(_, _)
AbsorbTexts(h, node) ==
    LET next == NextSibling(h, node)
    IN  IF next.err # NoError THEN Did(h, next.err)
        ELSE IF next.node # NoNode /\ h[next.node].name = "text"
        THEN LET d == NodeDetach(h, next.node)
                 a == NodeAdd(d.heap, node, next.node)
             IN  IF d.err # NoError THEN d
                 ELSE IF a.err # NoError THEN a
                 ELSE AbsorbTexts(a.heap, node)
        ELSE Did(h, NoError)

\* NormalizeTree.on_statement
NormalizeOnStatement(h, node) ==
    LET a == AbsorbTexts(h, node)
    IN  IF a.err # NoError THEN a
        ELSE IF a.heap[node].children = << >> THEN NodeDetach(a.heap, node)
        ELSE a

\* NormalizeTree.on_text: the second definition of the class body, which replaces
\* the first
NormalizeOnText(h, node) == Did(h, NoError)

\* NormalizeTree.on_comment, `for child in node.children:` over the list the loop
\* body shortens: the i-th pass takes the child now at index i
RECURSIVE MoveToPrevious(_, _, _)
MoveToPrevious(h, node, i) ==
    IF i >= Len(h[node].children) THEN Did(h, NoError)
    ELSE LET child == h[node].children[i + 1]
             prev == PreviousSibling(h, node)
             d == NodeDetach(h, child)
         IN  IF prev.err # NoError THEN Did(h, prev.err)
             ELSE IF prev.node = NoNode THEN Did(h, AttributeError)
             ELSE IF d.err # NoError THEN d
             ELSE LET a == NodeAdd(d.heap, prev.node, child)
                  IN  IF a.err # NoError THEN a ELSE MoveToPrevious(a.heap, node, i + 1)

\* NormalizeTree.on_comment, after self.Comments.process(node)
MergeComment(h, node) ==
    LET prev == PreviousSibling(h, node)
        first == FirstChild(h, node)
    IN  IF prev.err # NoError THEN Did(h, prev.err)
        ELSE IF prev.node # NoNode /\ first # NoNode /\ h[first].name # "directive"
        THEN LET m == MoveToPrevious(h, node, 0)
             IN  IF m.err # NoError THEN m ELSE NodeDetach(m.heap, node)
        ELSE Did(h, NoError)

\* the comment handler of AdoptNext:
\*   if node.nextSibling: node.append(node.nextSibling.detach())
AdoptNextOnComment(h, node) ==
    LET next == NextSibling(h, node)
    IN  IF next.err # NoError THEN Did(h, next.err)
        ELSE IF next.node = NoNode THEN Did(h, NoError)
        ELSE LET d == NodeDetach(h, next.node)
             IN  IF d.err # NoError THEN d ELSE NodeAdd(d.heap, node, next.node)

\* the comment handler of InsertAround:
\*   node.parent.insert(node.index(), Node("text"))
\*   node.parent.insert(node.index() + 1, Node("block"))
InsertAroundOnComment(h, node) ==
    IF h[node].parent = NoParent THEN Did(h, AttributeError)
    ELSE LET p == h[node].parent
             h1 == Append(h, NewNode("text", NoAttributes))
             before == NodeInsert(h1, p, ListIndex(h[p].children, node), Len(h1))
             h2 == Append(before.heap, NewNode("block", NoAttributes))
         IN  IF before.err # NoError THEN before
             ELSE NodeInsert(h2, p, ListIndex(h2[p].children, node) + 1, Len(h2))

\* ------------------------------------------------------------------------
\* Dispatch: TreeProcessor.process, feed and catchall, TreeTransform.catchall

RECURSIVE ProcessorProcess(_, _, _, _)
RECURSIVE ProcessorFeed(_, _, _, _)
RECURSIVE TransformWalk(_, _, _, _, _, _)
RECURSIVE Handle(_, _, _, _)

\* TreeProcessor.process(node) for a Node: feed is run to its end and its last
\* value returned, so `out` holds that one value
ProcessorProcess(cls, h, node, log) ==
    LET r == ProcessorFeed(cls, h, node, log)
    IN  Walked(r.heap, <<LastYield(r.out)>>, r.log, r.err)

\* TreeProcessor.catchall: TreeProcessorError is a name no module defines
ProcessorCatchall(h, node, log) == Walked(h, << >>, log, NameError)

\* TreeTransform.catchall with `current = c.nextSibling` read after c was processed
\* instead of before
MutWalkReadsNextAfter(cls, h, node, current, out, log) ==
    IF current = NoNode THEN Walked(h, Append(out, node), log, NoError)
    ELSE LET r == ProcessorProcess(cls, h, current, log)
             next == NextSibling(r.heap, current)
         IN  IF r.err # NoError THEN Walked(r.heap, out, r.log, r.err)
             ELSE IF next.err # NoError THEN Walked(r.heap, out, r.log, next.err)
             ELSE TransformWalk(cls, r.heap, node, next.node,
                                out \o IterResult(r.heap, r.out[1]), r.log)

\* TreeTransform.catchall, the while loop from `current` on and the final
\* `yield node`
TransformWalk(cls, h, node, current, out, log) ==
    IF current = NoNode THEN Walked(h, Append(out, node), log, NoError)
    ELSE LET next == NextSibling(h, current)
             r == ProcessorProcess(cls, h, current, log)
         IN  IF next.err # NoError THEN Walked(h, out, log, next.err)
             ELSE IF r.err # NoError THEN Walked(r.heap, out, r.log, r.err)
             ELSE TransformWalk(cls, r.heap, node, next.node,
                                out \o IterResult(r.heap, r.out[1]), r.log)

\* TreeTransform.catchall
TransformCatchall(cls, h, node, log) ==
    TransformWalk(cls, h, node, FirstChild(h, node), << >>, log)

\* func(node) for the handler the class has for the node's name; every handler
\* returns None
Handle(cls, h, node, log) ==
    LET name == h[node].name
        plain(r) == Walked(r.heap, << >>, log, r.err)
    IN  CASE cls = NormalizeTreeClass /\ name = "statement" -> plain(NormalizeOnStatement(h, node))
          [] cls = NormalizeTreeClass /\ name = "text" -> plain(NormalizeOnText(h, node))
          [] cls = NormalizeTreeClass /\ name = "comment" ->
                LET c == ProcessorProcess(CommentProcessorClass, h, node, log)
                    m == MergeComment(c.heap, node)
                IN  IF c.err # NoError THEN Walked(c.heap, << >>, c.log, c.err)
                    ELSE Walked(m.heap, << >>, c.log, m.err)
          [] cls = CommentProcessorClass /\ name = "block" -> plain(CommentOnBlock(h, node))
          [] cls = CommentProcessorClass /\ name = "text" -> plain(CommentOnText(h, node))
          [] cls = AdoptNextClass /\ name = "comment" -> plain(AdoptNextOnComment(h, node))
          [] cls = InsertAroundClass /\ name = "comment" -> plain(InsertAroundOnComment(h, node))

\* TreeProcessor.feed
ProcessorFeed(cls, h, node, log) ==
    LET given == Append(log, Dispatch(cls, node))
    IN  IF h[node].name \in Matches(cls) THEN Handle(cls, h, node, given)
        ELSE IF IsTransform(cls) THEN TransformCatchall(cls, h, node, given)
        ELSE ProcessorCatchall(h, node, given)

\* ------------------------------------------------------------------------
\* Node objects a caller builds and rearranges (tree.py)

MaxNodes == 2

Nodes == 1 .. MaxNodes

\* the n-th node a caller constructs: Node("block", type="{"), Node("text", value="a"),
\* Node("comment"), and so on again
Constructed(n) ==
    CASE n % 3 = 1 -> NewNode("block", [type |-> <<"{">>])
      [] n % 3 = 2 -> NewNode("text", NoAttributes)
      [] OTHER -> NewNode("comment", NoAttributes)

\* the index arguments tried: in range, negative, and out of range either way
Indices == {-2, -1, 0, 1, 2}

\* the list arguments tried: no node, one node, two nodes (the same twice included)
NodeLists ==
    {<< >>} \cup {<<a>> : a \in Nodes} \cup {<<a, b>> : a \in Nodes, b \in Nodes}

\* the nodes just constructed, none attached, and nothing else going on
InitNodes ==
    /\ parser = "none"
    /\ text = << >>
    /\ offset = 0
    /\ scanned = TRUE
    /\ hit = NoHit
    /\ hits = << >>
    /\ quote_type = None
    /\ quote_start = -1
    /\ expr_offset = 0
    /\ parsed = TRUE
    /\ parse_err = NoError
    /\ withOffsets = FALSE
    /\ heap = [n \in Nodes |-> Constructed(n)]
    /\ stack = << >>
    /\ events = << >>
    /\ fed = 0
    /\ err = NoError
    /\ raised = FALSE
    /\ diagnostics = << >>
    /\ pc = "run"
    /\ call = NoCall

\* a Node method is called and returns or raises; what it did to the objects before
\* raising stays
Called(c, r) ==
    /\ parser = "none" /\ stack = << >>
    /\ call = NoCall
    /\ call' = c
    /\ heap' = r.heap
    /\ err' = r.err
    /\ UNCHANGED <<text, parser, scanVars, classVars, events, fed, stack, withOffsets,
                   raised, diagnostics, pc>>

CallAdd ==
    \E p \in Nodes, n \in Nodes :
        Called([op |-> "add", self |-> p, node |-> n], NodeAdd(heap, p, n))

CallAppend ==
    \E p \in Nodes, n \in Nodes :
        Called([op |-> "append", self |-> p, node |-> n], NodeAdd(heap, p, n))

CallInsert ==
    \E p \in Nodes, i \in Indices, n \in Nodes :
        Called([op |-> "insert", self |-> p, index |-> i, node |-> n],
               NodeInsert(heap, p, i, n))

CallSet ==
    \E p \in Nodes, i \in Indices, n \in Nodes :
        Called([op |-> "set", self |-> p, index |-> i, node |-> n], NodeSet(heap, p, i, n))

CallRemove ==
    \E p \in Nodes, n \in Nodes :
        Called([op |-> "remove", self |-> p, node |-> n], NodeRemove(heap, p, n))

CallDetach ==
    \E n \in Nodes :
        Called([op |-> "detach", self |-> n], NodeDetach(heap, n))

CallWrap ==
    \E n \in Nodes, node \in Nodes :
        Called([op |-> "wrap", self |-> n, node |-> node], NodeWrap(heap, n, node))

CallMerge ==
    \E p \in Nodes, n \in Nodes, attributes \in BOOLEAN, replace \in BOOLEAN :
        Called([op |-> "merge", self |-> p, node |-> n,
                attributes |-> attributes, replace |-> replace],
               NodeMerge(heap, p, n, attributes, replace))

CallAbsorb ==
    \E p \in Nodes, n \in Nodes :
        Called([op |-> "absorb", self |-> p, node |-> n], NodeAbsorb(heap, p, n))

CallExtend ==
    \E p \in Nodes, nodes \in NodeLists :
        Called([op |-> "extend", self |-> p, nodes |-> nodes], NodeExtend(heap, p, nodes))

CallSetChildren ==
    \E p \in Nodes, children \in NodeLists :
        Called([op |-> "setChildren", self |-> p, nodes |-> children],
               NodeSetChildren(heap, p, children))

CallReplaceWith ==
    \E n \in Nodes, nodes \in NodeLists :
        Called([op |-> "replaceWith", self |-> n, nodes |-> nodes],
               NodeReplaceWith(heap, n, nodes))

\* the caller has the result (or has caught the exception) and is about to make its
\* next call
CallOver ==
    /\ parser = "none" /\ stack = << >>
    /\ call # NoCall
    /\ call' = NoCall
    /\ UNCHANGED <<text, parser, scanVars, classVars, events, fed, treeVars, withOffsets,
                   err, raised, diagnostics, pc>>

NextNodes ==
    \/ CallOver
    \/ CallAdd
    \/ CallAppend
    \/ CallInsert
    \/ CallSet
    \/ CallRemove
    \/ CallDetach
    \/ CallWrap
    \/ CallMerge
    \/ CallAbsorb
    \/ CallExtend
    \/ CallSetChildren
    \/ CallReplaceWith

\* ------------------------------------------------------------------------
\* Trees given to a processor

MaxTreeNodes == 4
MaxRuns == 2

\* the nodes a tree is made of, below its Node("root"): what TreeExtractor.node builds
\* with offsets for a block, a comment, a statement and a text
TreeNodeSet ==
    {NewNode("block", [type |-> <<"{">>, start |-> 0, end |-> 1]),
     NewNode("block", [type |-> <<"(">>, start |-> 0, end |-> 1]),
     NewNode("comment", [start |-> 0, end |-> 1]),
     NewNode("statement", [start |-> 0, end |-> 1]),
     NewNode("text", [value |-> <<"a">>, start |-> 0, end |-> 1]),
     NewNode("text", [value |-> <<"@", "a", "b", ",", "-", "-", " ">>, start |-> 0, end |-> 7])}

\* b is a, or a is reached from b by following `parents`
RECURSIVE AboveOrSelf(_, _, _)
AboveOrSelf(parents, a, b) ==
    a = b \/ (b > RootNode /\ AboveOrSelf(parents, a, parents[b]))

\* the parent of every node of a tree of n nodes numbered in pre-order: the parent of
\* k is k - 1 or a node above k - 1
Shapes(n) ==
    {parents \in [2 .. n -> 1 .. n] :
        \A k \in 2 .. n : parents[k] < k /\ AboveOrSelf(parents, parents[k], k - 1)}

\* the children of p, in order
RECURSIVE ChildrenIn(_, _, _, _)
ChildrenIn(parents, n, p, k) ==
    IF k > n THEN << >>
    ELSE (IF parents[k] = p THEN <<k>> ELSE << >>) \o ChildrenIn(parents, n, p, k + 1)

\* the tree of the given shape and nodes, under Node("root")
TreeOf(n, parents, nodes) ==
    [k \in 1 .. n |->
        IF k = RootNode
        THEN [NewNode("root", NoAttributes) EXCEPT !.children = ChildrenIn(parents, n, k, 2)]
        ELSE [nodes[k] EXCEPT !.parent = parents[k],
                              !.children = ChildrenIn(parents, n, k, 2)]]

\* the trees of at most MaxTreeNodes nodes whose text nodes are leaves
Trees ==
    UNION {{TreeOf(n, parents, nodes) : parents \in Shapes(n), nodes \in [2 .. n -> TreeNodeSet]}
           : n \in 1 .. MaxTreeNodes}

TextsAreLeaves(h) == \A n \in DOMAIN h : h[n].name = "text" => h[n].children = << >>

\* a processor of one of the classes has been constructed and a tree built
InitWalk ==
    /\ parser = "none"
    /\ text = << >>
    /\ offset = 0
    /\ scanned = TRUE
    /\ hit = NoHit
    /\ hits = << >>
    /\ quote_type = None
    /\ quote_start = -1
    /\ expr_offset = 0
    /\ parsed = TRUE
    /\ parse_err = NoError
    /\ withOffsets = TRUE
    /\ heap \in Trees /\ TextsAreLeaves(heap)
    /\ stack = << >>
    /\ events = << >>
    /\ fed = 0
    /\ err = NoError
    /\ raised = FALSE
    /\ diagnostics = << >>
    /\ pc = "run"
    /\ \E cls \in {TreeProcessorClass, TreeTransformClass, NormalizeTreeClass, AdoptNextClass,
                    InsertAroundClass} :
          call = [op |-> "new", by |-> cls, run |-> 0]

\* processor.process(root), for the processor of Init; a caller may call it again
\* after it returned
ProcessTree ==
    /\ call.op \in {"new", "process"}
    /\ call.run < MaxRuns
    /\ err = NoError
    /\ \E r \in {ProcessorFeed(call.by, heap, RootNode, << >>)} :
          /\ heap' = r.heap
          /\ err' = r.err
          /\ diagnostics' = r.out
          /\ call' = [op |-> "process", by |-> call.by, run |-> call.run + 1,
                      node |-> RootNode, log |-> r.log, result |-> LastYield(r.out)]
    /\ UNCHANGED <<text, parser, scanVars, classVars, events, fed, stack, withOffsets,
                   raised, pc>>

NextWalk == ProcessTree

\* ------------------------------------------------------------------------
\* Language classes a caller defines and constructs (parser.py, lang/js.py)

\* subclasses of BlockLanguage: each class attribute is the one of BlockLanguage or
\* one a subclass gives, listing "#", ";" or "|" in more than one place among them
BlockClasses ==
    {[BlockLanguageClass EXCEPT !.ESCAPE = e, !.COMMENTS = c, !.STATEMENT_END = s,
                                !.LINE_END = l, !.BLOCKS = b, !.QUOTES = q] :
        e \in {BlockLanguageClass.ESCAPE, <<"#">>},
        c \in {BlockLanguageClass.COMMENTS, << >>, << <<"#">> >>, << <<";">> >>},
        s \in {BlockLanguageClass.STATEMENT_END, << <<";">> >>, << <<"#">> >>},
        l \in {BlockLanguageClass.LINE_END, << >>},
        b \in {BlockLanguageClass.BLOCKS, << >>, << << <<"{">>, <<"}">> >> >>,
                << << <<"|">>, <<"|">> >> >>},
        q \in {BlockLanguageClass.QUOTES, << >>, << <<"|">> >>}}

\* the class attributes of ExpressionLanguage
ExpressionLanguageClass ==
    [ESCAPE |-> <<"\\">>,
     TRIM |-> <<" ", "\t", "\n">>,
     SEPARATORS |-> << <<" ">>, <<"\t">> >>,
     KEYWORDS |-> << >>,
     OPERATOR_INFIX |-> << >>,
     OPERATOR_PREFIX |-> << >>,
     OPERATOR_SUFFIX |-> << >>]

\* subclasses of ExpressionLanguage: each class attribute is the one of
\* ExpressionLanguage, the one of JavaScriptExpression or a single "-"
ExpressionClasses ==
    {[ExpressionLanguageClass EXCEPT !.SEPARATORS = sep, !.KEYWORDS = k,
                                     !.OPERATOR_INFIX = i, !.OPERATOR_PREFIX = pre,
                                     !.OPERATOR_SUFFIX = suf] :
        sep \in {ExpressionLanguageClass.SEPARATORS, << <<"-">> >>},
        k \in {ExpressionLanguageClass.KEYWORDS, JavaScriptExpressionClass.KEYWORDS,
               << <<"-">> >>},
        i \in {ExpressionLanguageClass.OPERATOR_INFIX,
               JavaScriptExpressionClass.OPERATOR_INFIX, << <<"-">> >>},
        pre \in {ExpressionLanguageClass.OPERATOR_PREFIX,
                 JavaScriptExpressionClass.OPERATOR_PREFIX, << <<"-">> >>},
        suf \in {ExpressionLanguageClass.OPERATOR_SUFFIX,
                 JavaScriptExpressionClass.OPERATOR_SUFFIX}}

\* a language class has been defined and nothing constructed
InitLang ==
    /\ parser = "none"
    /\ text = << >>
    /\ offset = 0
    /\ scanned = TRUE
    /\ hit = NoHit
    /\ hits = << >>
    /\ quote_type = None
    /\ quote_start = -1
    /\ expr_offset = 0
    /\ parsed = TRUE
    /\ parse_err = NoError
    /\ withOffsets = TRUE
    /\ heap = << >>
    /\ stack = << >>
    /\ events = << >>
    /\ fed = 0
    /\ err = NoError
    /\ raised = FALSE
    /\ diagnostics = << >>
    /\ pc = "run"
    /\ \/ \E cls \in BlockClasses : call = [op |-> "class", base |-> "BlockLanguage", cls |-> cls]
       \/ \E cls \in ExpressionClasses :
             call = [op |-> "class", base |-> "ExpressionLanguage", cls |-> cls]

\* cls(), for a subclass of BlockLanguage: __init__ has no raise and no assert
NewBlockLanguage ==
    /\ call.op = "class" /\ call.base = "BlockLanguage"
    /\ call' = [op |-> "__init__", base |-> call.base, cls |-> call.cls,
                language |-> BlockLanguage(call.cls)]
    /\ err' = NoError
    /\ UNCHANGED <<text, parser, scanVars, classVars, events, fed, heap, stack, withOffsets,
                   raised, diagnostics, pc>>

\* cls(), for a subclass of ExpressionLanguage: __init__ has no raise and no assert
NewExpressionLanguage ==
    /\ call.op = "class" /\ call.base = "ExpressionLanguage"
    /\ call' = [op |-> "__init__", base |-> call.base, cls |-> call.cls,
                language |-> ExpressionLanguage(call.cls)]
    /\ err' = NoError
    /\ UNCHANGED <<text, parser, scanVars, classVars, events, fed, heap, stack, withOffsets,
                   raised, diagnostics, pc>>

NextLang ==
    \/ NewBlockLanguage
    \/ NewExpressionLanguage

\* ------------------------------------------------------------------------
\* iterDelimiters called directly (parser.py)

\* the longest text scanned and the largest lookahead given, besides the default one
MaxScanLen == 3
MaxLookahead == 4

\* texts over a plain character, a delimiter character and the escape character
\* and a text whose first `;` is escaped and whose `;;` comes later
EscapedThenLonger == <<"\\", ";", "a", ";", ";">>
ScanTexts ==
    UNION {[1 .. k -> {"a", ";", "\\"}] : k \in 0 .. MaxScanLen} \cup {EscapedThenLonger}

\* the lists of delimiters given: one literal, and a literal with one it begins
ScanDelimiters == {<< <<";">> >>, << <<";">>, <<";", ";">> >>, << <<"a", ";">>, <<";">> >>}

\* list(iterDelimiters(text, delimiters, escape, lookahead)) about to start
InitScan ==
    /\ parser = "none"
    /\ text \in ScanTexts
    /\ offset = 0
    /\ scanned = FALSE
    /\ hit = NoHit
    /\ hits = << >>
    /\ quote_type = None
    /\ quote_start = -1
    /\ expr_offset = 0
    /\ parsed = TRUE
    /\ parse_err = NoError
    /\ withOffsets = TRUE
    /\ heap = << >>
    /\ stack = << >>
    /\ events = << >>
    /\ fed = 0
    /\ err = NoError
    /\ raised = FALSE
    /\ diagnostics = << >>
    /\ pc = "run"
    /\ \E delimiters \in ScanDelimiters, lookahead \in (1 .. MaxLookahead) \cup {Lookahead} :
          call = [op |-> "iterDelimiters", delimiters |-> delimiters,
                  escape |-> <<"\\">>, lookahead |-> lookahead]

\* the generator is asked for its next triple: it runs to its next yield, which one
\* pass of the loop may not reach, or to its end
ScanStep ==
    /\ call.op = "iterDelimiters"
    /\ ~scanned
    /\ IterDelimitersPass(call.delimiters, call.escape, call.lookahead)
    /\ UNCHANGED <<text, parser, classVars, events, fed, treeVars, withOffsets, err, raised,
                   diagnostics, pc, call>>

NextScan == ScanStep

\* extractor.process(parser.parse(text)) for the texts of Init
Spec == Init /\ [][Next]_vars

\* a TreeExtractor fed the events of FeedEvents
SpecFeed == InitFeed /\ [][NextFeed]_vars

\* any sequence of structural calls on the nodes of InitNodes
SpecNodes == InitNodes /\ [][NextNodes]_vars

\* a processor run, and run again, over the root of a tree of Trees
SpecWalk == InitWalk /\ [][NextWalk]_vars

\* a language class of BlockClasses or ExpressionClasses, constructed
SpecLang == InitLang /\ [][NextLang]_vars

\* iterDelimiters consumed to its end by list() or a for loop, which asks for the next
\* triple until the generator is exhausted
SpecScan == InitScan /\ [][NextScan]_vars /\ WF_vars(NextScan)

\* ------------------------------------------------------------------------
\* Vocabulary of the properties

LeafTypes == {QUOTE, TEXT, KEYWORD, OPERATOR_INFIX, OPERATOR_SUFFIX, OPERATOR_PREFIX}

\* the step of a classifier that takes the pending match
TakesMatch == hit # NoHit /\ hit' = NoHit

\* feed is given the event e in this step
FeedsType(type) == fed' = fed + 1 /\ events'[fed'].type = type

\* does the literal d occur in s at offset i?
OccursAt(s, d, i) == i + Len(d) <= Len(s) /\ SubSeq(s, i + 1, i + Len(d)) = d

\* the values of the nodes ns, joined
RECURSIVE JoinValues(_, _, _)
JoinValues(h, ns, k) ==
    IF k > Len(ns) THEN << >>
    ELSE h[ns[k]].attributes.value \o JoinValues(h, ns, k + 1)

HasValue(h, n) == "value" \in DOMAIN h[n].attributes

\* how many events of the given types the stream holds
RECURSIVE CountTypes(_, _, _)
CountTypes(es, types, k) ==
    IF k > Len(es) THEN 0
    ELSE (IF es[k].type \in types THEN 1 ELSE 0) + CountTypes(es, types, k + 1)

\* ------------------------------------------------------------------------
\* C1

\* texts of BlockTexts made of characters of no delimiter, one of them at least
\* outside the trim set, followed by one ";"
OneStatementTexts ==
    {t \in BlockTexts :
        /\ Len(t) >= 2 /\ t[Len(t)] = ";"
        /\ \A d \in Range(BlockLang.delimiters) : Find(SubSeq(t, 1, Len(t) - 1), d, 0, Len(t)) = -1
        /\ \E k \in 1..(Len(t) - 1) : ~CharIn(t[k], BlockLang.trim)}

\* C1: BlockParser then TreeExtractor, on non-delimiter text followed by one ";",
\* give a root with exactly one child, a statement, whose children are leaves that
\* carry the text before the terminator.
C1_StatementHoldsItsText ==
    (parser = "block" /\ pc = "done" /\ text \in OneStatementTexts) =>
        LET top == heap[RootNode].children
        IN /\ Len(top) = 1
           /\ heap[top[1]].name = "statement"
           /\ LET leaves == heap[top[1]].children
                  span == Trim(text, BlockLang.trim, 0, Len(text) - 1)
              IN /\ leaves # << >>
                 /\ \A k \in DOMAIN leaves :
                        heap[leaves[k]].children = << >> /\ HasValue(heap, leaves[k])
                 /\ JoinValues(heap, leaves, 1) = Slice(text, span[1], span[2])

\* ------------------------------------------------------------------------
\* C2

\* where the text before the pending match starts: the end of the match before it
GapStart == IF Len(hits) <= 1 THEN 0 ELSE hits[Len(hits) - 1].end

\* C2: when BlockParser takes, outside a quote, a match of a delimiter that is no
\* quote, and the text between the previous match (or the start of the input) and
\* the delimiter has a character outside the trim set, it yields a text event for
\* exactly the trimmed span and then the delimiter's own event.
C2_TextBeforeDelimiter ==
    [][(/\ parser = "block" /\ TakesMatch /\ quote_type = None
        /\ DictGet(BlockLang.events, hit.delim) \notin {QUOTE, NoEventType}
        /\ LET t == Trim(text, BlockLang.trim, GapStart, hit.end - Len(hit.delim))
           IN t[1] < t[2])
       => LET delim_start == hit.end - Len(hit.delim)
              t == Trim(text, BlockLang.trim, GapStart, delim_start)
          IN events' = events \o
                <<ParseEvent(TEXT, text, t[1], t[2], None),
                  ParseEvent(DictGet(BlockLang.events, hit.delim), text, delim_start,
                             hit.end, hit.delim)>>]_vars

\* ------------------------------------------------------------------------
\* C3

\* C3: iterDelimiters yields no match of a delimiter at an offset i > 0 whose
\* preceding character text[i - 1] is the escape character.
C3_EscapedNeverYielded ==
    \A k \in DOMAIN hits :
        LET i == hits[k].end - Len(hits[k].delim)
        IN i > 0 => <<At(text, i - 1)>> # Lang.escape

\* the scan is over, it yielded matches, and the text holds a delimiter right after
\* an escape character
C3_Witness ==
    /\ parser # "none" /\ scanned /\ hits # << >>
    /\ \E i \in 1..(Len(text) - 1) : \E d \in Range(Lang.delimiters) :
          OccursAt(text, d, i) /\ <<At(text, i - 1)>> = Lang.escape

\* ------------------------------------------------------------------------
\* C4

\* the match that opened the quote still open after the matches hs[1..k] were
\* taken, or 0: a quote literal opens a quote, the next match of the same literal
\* closes it
RECURSIVE OpenQuote(_, _, _)
OpenQuote(hs, k, open) ==
    IF k > Len(hs) THEN open
    ELSE OpenQuote(hs, k + 1,
                   IF open = 0
                   THEN (IF ListIn(hs[k].delim, BlockLang.quotes) THEN k ELSE 0)
                   ELSE (IF hs[k].delim = hs[open].delim THEN 0 ELSE open))

\* the quote open when the pending match, the last of hits, is taken
OpenBefore == OpenQuote(SubSeq(hits, 1, Len(hits) - 1), 1, 0)

\* C4: between the match that opens a quote and the next match of the same quote
\* literal BlockParser yields no event; at that closing match it yields exactly one
\* quote event, from the start of the opening literal to the end of the closing
\* one. For a "b ; c" d that is one quote event over "b ; c" and no statement-end.
C4_QuoteSwallows ==
    [][/\ (parser = "block" /\ TakesMatch /\ OpenBefore # 0) =>
            LET opened == hits[OpenBefore]
            IN IF hit.delim # opened.delim
               THEN events' = events
               ELSE events' = Append(events,
                        ParseEvent(QUOTE, text, opened.end - Len(opened.delim), hit.end,
                                   hit.delim))
       /\ (text = QuotedSemicolon /\ pc' = "done") =>
            /\ CountTypes(events', {QUOTE}, 1) = 1
            /\ CountTypes(events', {STATEMENT_END}, 1) = 0
            /\ \E k \in DOMAIN events' :
                  /\ events'[k].type = QUOTE
                  /\ events'[k].start = 2 /\ events'[k].end = 9]_vars

\* a quote was opened, a statement terminator inside it was taken, and the quote
\* was closed
C4_Witness ==
    /\ parser = "block" /\ hit = NoHit /\ Len(hits) >= 3
    /\ OpenQuote(hits, 1, 0) = 0
    /\ OpenQuote(SubSeq(hits, 1, Len(hits) - 1), 1, 0) = Len(hits) - 2
    /\ hits[Len(hits) - 1].delim = <<";">>
    /\ events # << >> /\ events[Len(events)].type = QUOTE

\* ------------------------------------------------------------------------
\* C5

\* C5: the leaf node TreeExtractor appends for a quote, text, keyword or operator
\* event a classifier made for text[start:end] has the value text[start:end].
C5_LeafValueIsItsSpan ==
    [][(parser # "none" /\ fed' = fed + 1 /\ events[fed + 1].type \in LeafTypes
        /\ err' = NoError)
       => LET event == events[fed + 1]
          IN heap'[Len(heap')].attributes.value = Slice(text, event.start, event.end)]_vars

\* ------------------------------------------------------------------------
\* C6

\* the place of the last statement among the children ns, or 0
LastStatement(h, ns) ==
    LET at == {k \in DOMAIN ns : h[ns[k]].name = "statement"}
    IN IF at = {} THEN 0 ELSE CHOOSE k \in at : \A m \in at : m <= k

\* C6: fed a statement-end, TreeExtractor gives the new statement exactly the
\* children of the current scope that follow its last statement child (all of them
\* when it has none), in their order; the earlier children stay, and the new
\* statement becomes the last child of the scope.
C6_StatementTakesWhatFollowsTheLast ==
    [][(FeedsType(STATEMENT_END) /\ stack # << >> /\ err' = NoError)
       => LET scope == Current(stack)
              before == heap[scope].children
              last == LastStatement(heap, before)
              statement == Len(heap')
          IN /\ heap'[statement].name = "statement"
             /\ heap'[statement].children = SubSeq(before, last + 1, Len(before))
             /\ heap'[scope].children = Append(SubSeq(before, 1, last), statement)]_vars

\* ------------------------------------------------------------------------
\* C7

OnlyTypes(es, types) == \A k \in DOMAIN es : es[k].type \in types

\* the depth the events fed so far give when every block-start pushed and every
\* block-end popped
CountedDepth ==
    1 + CountTypes(events, {BLOCK_START}, 1) - CountTypes(events, {BLOCK_END}, 1)

\* C7: after N block-start events and no close the stack depth is N + 1; a
\* block-end fed at a depth above 1 lowers the depth by exactly 1, whatever literal
\* it carries and whatever frame is on top; so after block-start, block-end and leaf
\* events of which none raised the depth is 1 + block-starts - block-ends.
C7_BlockDepth ==
    [][/\ (~raised' /\ OnlyTypes(events', {BLOCK_START}))
            => Len(stack') = Len(events') + 1
       /\ (~raised' /\ OnlyTypes(events', {BLOCK_START, BLOCK_END} \cup LeafTypes))
            => Len(stack') = CountedDepth'
       /\ (FeedsType(BLOCK_END) /\ Len(stack) > 1)
            => Len(stack') = Len(stack) - 1 /\ err' = NoError]_vars

\* a block-end carrying ")" was fed while a comment was on top of a block opened
\* by "{", and the depth went from 3 to 2
C7_Witness ==
    /\ parser = "none" /\ ~raised /\ Len(events) = 3
    /\ events[1].type = BLOCK_START /\ events[1].value = <<"{">>
    /\ events[2].type = COMMENT
    /\ events[3].type = BLOCK_END /\ events[3].value = <<")">>
    /\ Len(stack) = 2

\* ------------------------------------------------------------------------
\* C8

\* C8: with only the root frame on the stack, feed of a block-end raises, and feed
\* of a line-end raises nothing and changes nothing.
C8_UnderflowRaises ==
    [][/\ (FeedsType(BLOCK_END) /\ Len(stack) = 1) => err' = PlainException
       /\ (FeedsType(LINE_END) /\ Len(stack) = 1)
            => err' = NoError /\ heap' = heap /\ stack' = stack]_vars

\* a line-end and then a block-end were fed to a fresh extractor, and the second raised
C8_Witness ==
    /\ parser = "none" /\ Len(events) = 2
    /\ events[1].type = LINE_END /\ events[2].type = BLOCK_END
    /\ heap = ResetHeap
    /\ err = PlainException

\* ------------------------------------------------------------------------
\* C9

C10_OpenFramesAreNoError ==
    [][(pc = "run" /\ pc' # "run" /\ Len(stack) > 1)
       => /\ pc' = "done" /\ err' = NoError
          /\ diagnostics' = << >>
          /\ \A k \in DOMAIN stack' :
                Subtree(heap', stack'[k].node) \subseteq Subtree(heap', RootNode)]_vars

\* process returned with a block and a comment inside it open, the comment holding a leaf
C10_Witness ==
    /\ parser = "none" /\ pc = "done" /\ Len(stack) = 3
    /\ stack[2].awaits = BLOCK_START /\ stack[3].awaits = LINE_END
    /\ heap[Current(stack)].children # << >>

\* ------------------------------------------------------------------------
\* Vocabulary of the Node properties

\* a structural call is being made by this step
Calls(ops) == call = NoCall /\ call'.op \in ops

\* how many times n occurs in the list l
RECURSIVE Occurrences(_, _, _)
Occurrences(l, n, k) ==
    IF k > Len(l) THEN 0
    ELSE (IF l[k] = n THEN 1 ELSE 0) + Occurrences(l, n, k + 1)

\* the node reached from n by following `parent` k times, NoParent once the chain ends
RECURSIVE Ancestor(_, _, _)
Ancestor(h, n, k) ==
    IF n = NoParent \/ k = 0 THEN n ELSE Ancestor(h, h[n].parent, k - 1)

\* n is p, or p is reached from n by following child lists
RECURSIVE Beneath(_, _, _, _)
Beneath(h, p, n, k) ==
    \/ p = n
    \/ k > 0 /\ \E c \in Range(h[n].children) : Beneath(h, p, c, k - 1)

\* ------------------------------------------------------------------------
\* C11

\* C11: when n has a parent, p.append(n), p.add(n), p.insert(i, n) and p.set(i, n)
\* raise for every p and i, and n's parent, the child list of n's parent and the
\* child list of p are what they were before the call.
C11_AttachedNodeIsRefused ==
    [][(Calls({"append", "add", "insert", "set"}) /\ heap[call'.node].parent # NoParent)
       => /\ err' # NoError
          /\ heap'[call'.node].parent = heap[call'.node].parent
          /\ heap'[heap[call'.node].parent].children = heap[heap[call'.node].parent].children
          /\ heap'[call'.self].children = heap[call'.self].children]_vars

\* p.insert(i, n) was refused for a node n attached to some other node than p
C11_Witness ==
    /\ call.op = "insert" /\ err = AssertionError
    /\ call.index = 0
    /\ heap[call.node].parent \notin {NoParent, call.self}
    /\ call.node \in Range(heap[heap[call.node].parent].children)

\* ------------------------------------------------------------------------
\* C12

\* C12: after any sequence of structural calls, failed ones included, n.parent is p
\* exactly when n is in p's child list, and then n is there once; and after
\* n.detach() n has no parent and is in no child list.
C12_ParentAndChildListsAgree ==
    /\ \A n \in Nodes, p \in Nodes :
          /\ heap[n].parent = p <=> n \in Range(heap[p].children)
          /\ Occurrences(heap[p].children, n, 1) <= 1
    /\ call.op = "detach"
          => /\ heap[call.self].parent = NoParent
             /\ \A p \in Nodes : call.self \notin Range(heap[p].children)

\* a call that raised after it had changed the tree: setChildren stopped at a node
\* it had itself just attached
C12_Witness ==
    /\ call.op = "setChildren" /\ err = AssertionError
    /\ Len(call.nodes) = 2 /\ call.nodes[1] = call.nodes[2]
    /\ heap[call.self].children = <<call.nodes[1]>>
    /\ heap[call.nodes[1]].parent = call.self

\* ------------------------------------------------------------------------
\* C13

\* C13: after any sequence of structural calls no node is its own ancestor, and an
\* add, insert, set or wrap that would put a node beneath itself or one of its own
\* descendants does not succeed.
C13_TreeShaped ==
    [][/\ \A n \in Nodes : Ancestor(heap', n, MaxNodes) = NoParent
       /\ (Calls({"add", "append", "insert", "set"})
             /\ Beneath(heap, call'.self, call'.node, MaxNodes)) => err' # NoError
       /\ (Calls({"wrap"}) /\ Beneath(heap, call'.self, call'.node, MaxNodes))
             => err' # NoError]_vars

\* ------------------------------------------------------------------------
\* C14

\* C14: a structural call that raises leaves every parent, every child list and
\* every attribute map as it was before the call.
C14_RaisesLeaveTheTreeAlone ==
    [][(Calls({"add", "append", "insert", "set", "remove", "wrap", "merge", "absorb",
               "extend", "setChildren", "replaceWith"}) /\ err' # NoError)
       => heap' = heap]_vars

\* ------------------------------------------------------------------------
\* Vocabulary of the processor properties

\* how many times the processor of class cls was given node n
Dispatched(log, cls, n) == Cardinality({k \in DOMAIN log : log[k] = Dispatch(cls, n)})

\* the nodes a run gave a new parent
Moved(h, after) == {n \in DOMAIN h : after[n].parent # h[n].parent}

\* ------------------------------------------------------------------------
\* C15

\* C15: when a TreeTransform whose comment handler appends the comment's next sibling
\* to the comment walks a tree, every sibling so moved has become a child of a comment
\* and is dispatched exactly once during the walk.
C15_MovedSiblingDispatchedOnce ==
    [][(call'.op = "process" /\ call'.by = AdoptNextClass /\ err' = NoError)
       => \A x \in Moved(heap, heap') :
             /\ heap'[x].parent # NoParent
             /\ heap'[heap'[x].parent].name = "comment"
             /\ Dispatched(call'.log, AdoptNextClass, x) = 1]_vars

\* a first run gave the handler a comment and then the sibling it had just adopted,
\* once
C15_Witness ==
    /\ call.op = "process" /\ call.by = AdoptNextClass /\ call.run = 1 /\ err = NoError
    /\ \E k \in 1 .. Len(call.log) - 1 :
          LET c == call.log[k].node
              x == call.log[k + 1].node
          IN  /\ heap[c].name = "comment"
              /\ heap[x].parent = c
              /\ heap[c].parent = RootNode
              /\ Dispatched(call.log, AdoptNextClass, x) = 1

\* ------------------------------------------------------------------------
\* C16

\* the kind of n and, in order, the shapes of its children
RECURSIVE ShapeOf(_, _)
ShapeOf(h, n) ==
    <<h[n].name, [k \in DOMAIN h[n].children |-> ShapeOf(h, h[n].children[k])]>>

\* C16: NormalizeTree run over the tree a complete NormalizeTree run left returns
\* and leaves a tree of the same parent/child structure and node kinds.
C16_NormalizeTwiceKeepsShape ==
    [][(call.op = "process" /\ call.by = NormalizeTreeClass /\ err = NoError
          /\ call'.op = "process" /\ call'.run = call.run + 1)
       => /\ err' = NoError
          /\ ShapeOf(heap', RootNode) = ShapeOf(heap, RootNode)]_vars

\* ------------------------------------------------------------------------
\* C17

\* C17: a plain TreeProcessor given a node it has no handler for yields exactly one
\* diagnostic, raises nothing and is given none of the node's descendants.
C17_UnhandledNodeIsOneDiagnostic ==
    (call.op = "process" /\ call.by = TreeProcessorClass)
    => /\ err = NoError
       /\ Len(diagnostics) = 1
       /\ call.log = <<Dispatch(TreeProcessorClass, RootNode)>>

\* ------------------------------------------------------------------------
\* C18

\* C18: in every table BlockLanguage builds, every literal of `delimiters` has its
\* entry in `events`.
C18_EveryDelimiterHasItsEvent ==
    (call.op = "__init__" /\ call.base = "BlockLanguage")
    => \A d \in Range(call.language.delimiters) : d \in DOMAIN call.language.events

\* ------------------------------------------------------------------------
\* C19

\* C19: with the table BlockLanguage builds, BlockParser.parse raises the
\* unknown-delimiter ValueError for no text.
C19_NoTextRaisesUnknownDelimiter ==
    parser = "block" => parse_err # ValueError

\* ------------------------------------------------------------------------
\* C20

\* the categories of a constructed language, in the order __init__ reads them
Categories(language, base) ==
    IF base = "BlockLanguage"
    THEN <<language.comments, language.lineEnd, language.statementEnd,
           language.blockStart, language.blockEnd, language.quotes>>
    ELSE <<language.separators, language.keywords, language.opInfix,
           language.opPrefix, language.opSuffix>>

\* some literal is listed under two categories
ListedTwice(categories) ==
    \E i, j \in DOMAIN categories :
        i # j /\ Range(categories[i]) \cap Range(categories[j]) # {}

\* C20: constructing a language whose class lists one literal under two categories
\* raises.
C20_ListedTwiceFailsToBuild ==
    (call.op = "__init__" /\ ListedTwice(Categories(call.language, call.base)))
    => err # NoError

\* ------------------------------------------------------------------------
\* Vocabulary of the scanner properties

\* does the literal d occur in s at position j?
OccursIn(s, d, j) == j >= 0 /\ j + Len(d) <= Len(s) /\ Slice(s, j, j + Len(d)) = d

\* the positions at or after off where a delimiter occurs that the escape character
\* does not precede
Unescaped(s, delimiters, escape, off) ==
    {j \in off .. Len(s) - 1 :
        /\ \E k \in DOMAIN delimiters : OccursIn(s, delimiters[k], j)
        /\ (j = 0 \/ <<At(s, j - 1)>> # escape)}

\* one pass of the loop of iterDelimiters called directly
Scans == call.op = "iterDelimiters" /\ ~scanned /\ offset < Len(text) /\ offset' # offset

\* ------------------------------------------------------------------------
\* C21

\* C21: iterDelimiters terminates for every text, list of non-empty literals and
\* lookahead of at least 1: every pass of its loop strictly increases the offset, it
\* has yielded at most len(text) triples, and it is eventually exhausted.
C21_IterDelimitersTerminates ==
    /\ [][(call.op = "iterDelimiters" /\ ~scanned /\ offset < Len(text))
            => (offset' > offset /\ Len(hits') <= Len(text))]_vars
    /\ []((call.op = "iterDelimiters") => <>scanned)

\* the generator is exhausted after a pass that found nothing within the lookahead
\* and a pass that found a delimiter
C21_Witness ==
    /\ call.op = "iterDelimiters" /\ scanned
    /\ Len(hits) = 1 /\ hits[1].start >= call.lookahead
    /\ offset = Len(text)

\* ------------------------------------------------------------------------
\* C25

\* the least of a non-empty set of positions
Least(positions) == CHOOSE j \in positions : \A k \in positions : j <= k

\* C25: for a text shorter than the lookahead, a pass of iterDelimiters yields the
\* leftmost occurrence, at or after the offset, of a delimiter the escape character
\* does not precede, whatever escaped occurrences come before it, and yields nothing
\* only when there is no such occurrence.
C25_LeftmostUnescapedIsYielded ==
    [][(Scans /\ Len(text) < call.lookahead)
       => LET found == Unescaped(text, call.delimiters, call.escape, offset)
          IN  IF found = {} THEN hits' = hits
              ELSE /\ hits' = Append(hits, hit')
                   /\ hit'.start = Least(found)
                   /\ OccursIn(text, hit'.delim, hit'.start)]_vars

\* ------------------------------------------------------------------------
\* C26

\* C26: every triple iterDelimiters yields for a found delimiter starts at the offset
\* the search began at, which is 0 or the end of the triple yielded before.
C26_TripleStartsAtScanOffset ==
    [][(Scans /\ hits' # hits)
       => /\ hit'.start = offset
          /\ hit'.start = (IF hits = << >> THEN 0 ELSE hits[Len(hits)].end)]_vars

\* ------------------------------------------------------------------------
\* C27

\* C27: when the text does not end with a found delimiter, the last triple
\* iterDelimiters yields is (offset, len(text), None), from the end of the last found
\* delimiter.
C27_TrailingFragmentIsYielded ==
    (call.op = "iterDelimiters" /\ scanned /\ text # << >>)
    => LET found == {k \in DOMAIN hits : hits[k].delim # None}
           last == IF found = {} THEN 0
                   ELSE hits[CHOOSE k \in found : \A m \in found : m <= k].end
       IN  last < Len(text)
           => /\ hits # << >>
              /\ hits[Len(hits)] = DelimiterMatch(last, Len(text), None)

\* ------------------------------------------------------------------------
\* Vocabulary of the walk properties

\* a completed walk: process(root) by a TreeTransform, whose catchall handles the root
Walks == call'.op = "process" /\ call' # call /\ IsTransform(call'.by) /\ err' = NoError

\* the children of the root when the walk starts
Kids == Range(heap[RootNode].children)

\* where in the log the processor was first given n
FirstAt(log, cls, n) ==
    CHOOSE k \in DOMAIN log : log[k] = Dispatch(cls, n)
                               /\ \A m \in DOMAIN log : log[m] = Dispatch(cls, n) => k <= m

\* ------------------------------------------------------------------------
\* C22

\* C22: in a walk of the children of P, here the root, every child P had when the
\* walk started and still has where it was, no handler having detached or moved it, is
\* dispatched exactly once, and these children are dispatched in sibling order.
C22_UntouchedChildrenDispatchedOnce ==
    [][Walks =>
        LET log == call'.log
            cls == call'.by
            kept == {x \in Kids : heap'[x].parent = RootNode
                                   /\ x \in Range(heap'[RootNode].children)}
        IN  /\ \A x \in kept : Dispatched(log, cls, x) = 1
            /\ \A x, y \in kept :
                  ListIndex(heap[RootNode].children, x) < ListIndex(heap[RootNode].children, y)
                  => FirstAt(log, cls, x) < FirstAt(log, cls, y)]_vars

\* ------------------------------------------------------------------------
\* C23

\* C23: a child of P, here the root, that the handler of another node has taken out
\* of P and put elsewhere before the walk reached it is not dispatched by the walk.
C23_RemovedChildIsSkipped ==
    [][Walks =>
        \A x \in Kids :
            heap'[x].parent \notin {RootNode, NoParent}
            => Dispatched(call'.log, call'.by, x) = 0]_vars

\* ------------------------------------------------------------------------
\* C24

SpansOf(es, texts) ==
    {<<es[k].start, es[k].end>> : k \in {m \in DOMAIN es : (es[m].type = TEXT) = texts}}

\* the spans of the delimiter hits that are separators, or of those that are not
HitSpans(hs, lang, separators) ==
    {<<hs[k].start, hs[k].end>> :
        k \in {m \in DOMAIN hs : ListIn(hs[m].delim, lang.separators) = separators}}

\* the non-empty gaps before, between and after the hits of a text of length n
Gaps(hs, n) ==
    {g \in {<<(IF k = 0 THEN 0 ELSE hs[k].end),
              (IF k = Len(hs) THEN n ELSE hs[k + 1].start)>> : k \in 0 .. Len(hs)} :
        g[1] < g[2]}

\* C28: the events of ExpressionParser.parse come in increasing position order; the
\* text events are exactly the gaps between the delimiter hits, the trailing gap
\* included; every hit that is not a separator has its one event and a separator has
\* none; so every character is in exactly one text event or one hit.
C28_ExpressionEventsPartitionTheText ==
    (parser = "expr" /\ parsed /\ parse_err = NoError)
    => /\ \A k \in 1 .. Len(events) - 1 :
             events[k].start < events[k].end /\ events[k].end <= events[k + 1].start
       /\ SpansOf(events, TRUE) = Gaps(hits, Len(text))
       /\ SpansOf(events, FALSE) = HitSpans(hits, ExprLang, FALSE)
       /\ Cardinality(SpansOf(events, TRUE)) + Cardinality(SpansOf(events, FALSE))
             = Len(events)
       /\ \A c \in 0 .. Len(text) - 1 :
             Cardinality({sp \in SpansOf(events, TRUE) \cup HitSpans(hits, ExprLang, TRUE)
                                 \cup HitSpans(hits, ExprLang, FALSE) :
                             sp[1] <= c /\ c < sp[2]}) = 1

\* a parse is over that met a separator and an operator and ended with a trailing gap
C28_Witness ==
    /\ parser = "expr" /\ parsed /\ parse_err = NoError
    /\ HitSpans(hits, ExprLang, TRUE) # {}
    /\ SpansOf(events, FALSE) # {}
    /\ events # << >>
    /\ events[Len(events)].type = TEXT /\ events[Len(events)].end = Len(text)

\* ------------------------------------------------------------------------
\* C29

\* C29: as long as the extractor has not underflowed, the node of every frame above
\* the bottom one is a child of the node of the frame below it, and pop's assertion
\* `old in cur` has never failed, whatever events were fed.
C29_StackIsAncestorChain ==
    /\ err # AssertionError
    /\ stack # << >>
       => \A k \in 2 .. Len(stack) :
             /\ heap[stack[k].node].parent = stack[k - 1].node
             /\ NodeContains(heap, stack[k - 1].node, stack[k].node)

\* two scopes are open after a statement-end was fed and a scope was closed
C29_Witness ==
    /\ parser = "none" /\ ~raised /\ Len(stack) = 3
    /\ events # << >> /\ events[Len(events)].type = BLOCK_END
    /\ \E k \in DOMAIN events : events[k].type = STATEMENT_END

\* ------------------------------------------------------------------------
\* C30

\* C30: feeding a line-end pops exactly one frame when the top frame was pushed by a
\* comment, and otherwise leaves the stack as it was; the tree is unchanged either way.
C30_LineEndClosesOnlyAComment ==
    [][(parser = "none" /\ FeedsType(LINE_END))
       => /\ heap' = heap
          /\ IF stack # << >> /\ CurrentEvent(stack) = LINE_END
             THEN stack' = SubSeq(stack, 1, Len(stack) - 1) /\ err' = NoError
             ELSE stack' = stack]_vars

\* a line-end was fed while a block opened inside a comment was on top: both frames
\* are still there
C30_Witness ==
    /\ parser = "none" /\ ~raised /\ Len(stack) = 3
    /\ stack[2].awaits = LINE_END /\ stack[3].awaits = BLOCK_START
    /\ events # << >> /\ events[Len(events)].type = LINE_END

\* ------------------------------------------------------------------------
\* Node.replaceWith on nodes that are already part of a forest

MaxForest == 5

\* forests of MaxForest nodes: the parent of a node was constructed before it, and
\* children stand in the order they were added
Forests ==
    {[k \in 1 .. MaxForest |->
         [Constructed(k) EXCEPT !.parent = parents[k],
                                !.children = ChildrenIn(parents, MaxForest, k, 1)]]
     : parents \in {f \in [1 .. MaxForest -> 0 .. MaxForest - 1] :
                       \A k \in 1 .. MaxForest : f[k] < k}}

\* the list arguments tried: at most two nodes of the forest
ForestLists ==
    {<< >>} \cup {<<a>> : a \in 1 .. MaxForest}
            \cup {<<a, b>> : a \in 1 .. MaxForest, b \in 1 .. MaxForest}

\* the forest is built and nothing else is going on
InitForest ==
    /\ parser = "none"
    /\ text = << >>
    /\ offset = 0
    /\ scanned = TRUE
    /\ hit = NoHit
    /\ hits = << >>
    /\ quote_type = None
    /\ quote_start = -1
    /\ expr_offset = 0
    /\ parsed = TRUE
    /\ parse_err = NoError
    /\ withOffsets = FALSE
    /\ heap \in Forests
    /\ stack = << >>
    /\ events = << >>
    /\ fed = 0
    /\ err = NoError
    /\ raised = FALSE
    /\ diagnostics = << >>
    /\ pc = "run"
    /\ call = NoCall

\* n.replaceWith(nodes) for a node and a list of nodes of the forest
ReplaceInForest ==
    \E n \in 1 .. MaxForest, nodes \in ForestLists :
        Called([op |-> "replaceWith", self |-> n, nodes |-> nodes],
               NodeReplaceWith(heap, n, nodes))

NextForest == ReplaceInForest

SpecForest == InitForest /\ [][NextForest]_vars

\* the list has no node twice
Distinct(s) == \A i \in DOMAIN s, j \in DOMAIN s : s[i] = s[j] => i = j

\* the call of this step is n.replaceWith(L) on a node n with a parent and a list L of
\* distinct nodes that have no parent
ReplacesWithParentless ==
    /\ call = NoCall /\ call' # NoCall /\ call'.op = "replaceWith"
    /\ heap[call'.self].parent # NoParent
    /\ Distinct(call'.nodes)
    /\ \A i \in DOMAIN call'.nodes : heap[call'.nodes[i]].parent = NoParent

\* C33: n.replaceWith(L), for n at index i of P and L distinct parentless nodes, returns
\* with P's children A ++ L ++ B, every node of L a child of P, n without a parent and
\* the nodes below n where they were
C33_ReplaceWithSplicesTheList ==
    [][ReplacesWithParentless =>
          LET n == call'.self
              L == call'.nodes
              P == heap[n].parent
              i == ListIndex(heap[P].children, n)
              A == SubSeq(heap[P].children, 1, i)
              B == SubSeq(heap[P].children, i + 2, Len(heap[P].children))
          IN  /\ err' = NoError
              /\ heap'[P].children = A \o L \o B
              /\ \A k \in DOMAIN L : heap'[L[k]].parent = P
              /\ heap'[n].parent = NoParent
              /\ heap'[n].children = heap[n].children
              /\ \A d \in Subtree(heap, n) \ {n} : heap'[d] = heap[d]
    ]_vars

\* a node between two siblings has been replaced by a list, and the list stands between
\* the two
C33_Witness ==
    /\ call # NoCall /\ call.op = "replaceWith" /\ err = NoError
    /\ Len(call.nodes) >= 1
    /\ heap[call.self].parent = NoParent
    /\ \E p \in DOMAIN heap :
          /\ Len(heap[p].children) = Len(call.nodes) + 2
          /\ SubSeq(heap[p].children, 2, Len(call.nodes) + 1) = call.nodes
          /\ \A k \in DOMAIN call.nodes : heap[call.nodes[k]].parent = p

\* ------------------------------------------------------------------------
\* C34

\* the place of the literal d in the list of delimiters
ListedAt(delimiters, d) ==
    CHOOSE k \in DOMAIN delimiters :
        delimiters[k] = d /\ \A m \in DOMAIN delimiters : delimiters[m] = d => k <= m

\* the literal p begins the literal d and is shorter
BeginsWith(d, p) == Len(p) < Len(d) /\ SubSeq(d, 1, Len(p)) = p

\* C34: when two delimiter literals match at the same start position iterDelimiters
\* yields the one listed earlier, so a literal that begins with a literal listed
\* before it is never yielded, whatever the text.
C34_EarlierListedLiteralWins ==
    [][(Scans /\ hits' # hits)
       => LET at == ListedAt(call.delimiters, hit'.delim)
          IN  /\ \A k \in 1 .. at - 1 : ~OccursIn(text, call.delimiters[k], hit'.start)
              /\ \A k \in 1 .. at - 1 : ~BeginsWith(hit'.delim, call.delimiters[k])]_vars

\* ------------------------------------------------------------------------
\* C35

\* Node.iterWalk: the nodes of the list ns from its k-th on, each followed by the nodes
\* below it, in the order the walk yields them
RECURSIVE PreOrder(_, _, _)
PreOrder(h, ns, k) ==
    IF k > Len(ns) THEN << >>
    ELSE <<ns[k]>> \o PreOrder(h, h[ns[k]].children, 1) \o PreOrder(h, ns, k + 1)

\* the nodes made for text, quote, keyword and operator events
LeafNames == {"text", "quote", "keyword", "op-inf", "op-suf", "op-pre"}

\* C35: while no feed has raised, the walk from the root yields every node made so
\* far exactly once, and yields the leaf nodes in the order their events were fed,
\* which is the order the nodes were made in.
C35_FeedKeepsEveryNodeInOrder ==
    (parser = "none" /\ ~raised)
    => LET walk == PreOrder(heap, <<RootNode>>, 1)
       IN  /\ Len(walk) = Len(heap)
           /\ Range(walk) = DOMAIN heap
           /\ \A i \in DOMAIN walk, j \in DOMAIN walk :
                 (i < j /\ heap[walk[i]].name \in LeafNames /\ heap[walk[j]].name \in LeafNames)
                 => walk[i] < walk[j]

\* a statement-end has moved only the last children into its statement: a leaf fed
\* before them is still a sibling, before the statement
C35_Witness ==
    /\ parser = "none" /\ ~raised /\ fed > 0
    /\ \E p \in DOMAIN heap :
          \E i \in DOMAIN heap[p].children, j \in DOMAIN heap[p].children :
             /\ i < j
             /\ heap[heap[p].children[i]].name \in LeafNames
             /\ heap[heap[p].children[j]].name = "statement"
             /\ heap[heap[p].children[j]].children # << >>

\* ------------------------------------------------------------------------
\* NormalizeTree given any node of a tree

MaxGivenNodes == 5

\* the nodes of these trees: a block, a comment, a statement and a text
GivenNodeSet ==
    {NewNode("block", [type |-> <<"{">>, start |-> 0, end |-> 1]),
     NewNode("comment", [start |-> 0, end |-> 1]),
     NewNode("statement", [start |-> 0, end |-> 1]),
     NewNode("text", [value |-> <<"a">>, start |-> 0, end |-> 1])}

\* the trees of at most MaxGivenNodes nodes
GivenTrees ==
    UNION {{TreeOf(n, parents, nodes) : parents \in Shapes(n), nodes \in [2 .. n -> GivenNodeSet]}
           : n \in 1 .. MaxGivenNodes}

\* a NormalizeTree has been constructed and a tree built
InitGiven ==
    /\ parser = "none"
    /\ text = << >>
    /\ offset = 0
    /\ scanned = TRUE
    /\ hit = NoHit
    /\ hits = << >>
    /\ quote_type = None
    /\ quote_start = -1
    /\ expr_offset = 0
    /\ parsed = TRUE
    /\ parse_err = NoError
    /\ withOffsets = TRUE
    /\ heap \in GivenTrees /\ TextsAreLeaves(heap)
    /\ stack = << >>
    /\ events = << >>
    /\ fed = 0
    /\ err = NoError
    /\ raised = FALSE
    /\ diagnostics = << >>
    /\ pc = "run"
    /\ call = [op |-> "new", by |-> NormalizeTreeClass, run |-> 0]

\* processor.process(node) for a node of the tree, the root or any other
ProcessGiven ==
    /\ call.op = "new"
    /\ \E node \in DOMAIN heap :
          \E r \in {ProcessorFeed(call.by, heap, node, << >>)} :
             /\ heap' = r.heap
             /\ err' = r.err
             /\ diagnostics' = r.out
             /\ call' = [op |-> "process", by |-> call.by, run |-> call.run + 1,
                         node |-> node, log |-> r.log, result |-> LastYield(r.out)]
    /\ UNCHANGED <<text, parser, scanVars, classVars, events, fed, stack, withOffsets,
                   raised, pc>>

NextGiven == ProcessGiven

SpecGiven == InitGiven /\ [][NextGiven]_vars

\* ------------------------------------------------------------------------
\* C31

\* nothing below the comment c is for CommentProcessor to rewrite: no text, no
\* parenthesis block
Undecomposed(h, c) ==
    \A d \in Subtree(h, c) \ {c} :
        /\ h[d].name \in {"block", "comment", "statement"}
        /\ h[d].name = "block" => h[d].attributes.type # <<"(">>

\* this step gives NormalizeTree a comment that has a previous sibling and a first
\* child that is no directive
HandlesMergedComment ==
    /\ call.op = "new" /\ call'.op = "process" /\ call'.by = NormalizeTreeClass
    /\ heap[call'.node].name = "comment"
    /\ heap[call'.node].parent # NoParent
    /\ PreviousSibling(heap, call'.node).node # NoNode
    /\ FirstChild(heap, call'.node) # NoNode
    /\ heap[FirstChild(heap, call'.node)].name # "directive"
    /\ Undecomposed(heap, call'.node)

\* C31: when NormalizeTree handles a comment that has a previous sibling and a first
\* child that is no directive, all the children of the comment, however many, are
\* appended to the previous sibling in their order, and the comment is detached.
C31_CommentChildrenAllMoveToPrevious ==
    [][HandlesMergedComment =>
          LET c == call'.node
              prev == PreviousSibling(heap, c).node
          IN  /\ err' = NoError
              /\ heap'[prev].children = heap[prev].children \o heap[c].children
              /\ \A k \in DOMAIN heap[c].children : heap'[heap[c].children[k]].parent = prev
              /\ heap'[c].parent = NoParent
              /\ c \notin Range(heap'[heap[c].parent].children)]_vars

\* ------------------------------------------------------------------------
\* C32

\* a run of NormalizeTree from the node given to process
Normalizes == call.op = "new" /\ call'.op = "process" /\ call'.by = NormalizeTreeClass

\* C32: after a run of NormalizeTree every text node it was given has a statement as
\* its parent; a text given to process while its parent was no statement has a new
\* statement for its parent, which stands where the text stood.
C32_DispatchedTextIsWrapped ==
    [][Normalizes =>
          /\ \A x \in DOMAIN heap :
                (heap[x].name = "text" /\ Dispatch(NormalizeTreeClass, x) \in Range(call'.log))
                => /\ heap'[x].parent # NoParent
                   /\ heap'[heap'[x].parent].name = "statement"
          /\ LET n == call'.node
                 p == heap[n].parent
             IN  (heap[n].name = "text" /\ heap[p].name # "statement")
                 => \E w \in DOMAIN heap' \ DOMAIN heap :
                       /\ heap'[w].name = "statement"
                       /\ heap'[w].children = <<n>> /\ heap'[n].parent = w
                       /\ heap'[w].parent = p
                       /\ heap'[p].children =
                             [k \in DOMAIN heap[p].children |->
                                 IF heap[p].children[k] = n THEN w ELSE heap[p].children[k]]]_vars

====
